---- MODULE Spec2Model ----
(***************************************************************************)
(* A model of the aiken code generator (crates/aiken-lang/src/uplc.rs):    *)
(* CodeGenerator::generate lowers a typed expression to AIR (build_ir),    *)
(* plans the function definitions (define_ir) and synthesizes a UPLC term  *)
(* by processing the AIR in reverse over an operand stack (gen_uplc).      *)
(***************************************************************************)
EXTENDS Integers, Sequences, FiniteSets, TLC

VARIABLES
    pc,                 \* position of the generator: idle | synth | done, or
                        \* panic_define | panic_stack | panic_zero_arg
    id_gen,             \* CodeGenerator.id_gen: the next id IdGenerator hands out
    defined_functions,  \* CodeGenerator.defined_functions (set of access keys)
    zero_arg_functions, \* CodeGenerator.zero_arg_functions (access key -> AIR)
    needs_field_access, \* CodeGenerator.needs_field_access
    ir_stack,           \* generate(): the AIR still to be synthesized
    arg_stack,          \* uplc_code_gen(): the operand stack (top = last element)
    final_air,          \* the AIR define_ir left behind for the current call
    cur,                \* arguments of the generate() call in progress
    program,            \* the Program the last generate() returned
    calls,              \* number of generate() calls made on this generator
    last_step,          \* what the last gen_uplc step did to the stack
    wrappers            \* the builder calls generate() wrapped the term with

vars == <<pc, id_gen, defined_functions, zero_arg_functions, needs_field_access,
          ir_stack, arg_stack, final_air, cur, program, calls, last_step,
          wrappers>>

----------------------------------------------------------------------------
(* Bounds of the model *)

\* generate() calls made on one CodeGenerator
MaxGenerations == 2

----------------------------------------------------------------------------
(* Sequence helpers *)

Last(s) == s[Len(s)]
Front(s) == SubSeq(s, 1, Len(s) - 1)
Rev(s) == [i \in 1..Len(s) |-> s[Len(s) + 1 - i]]

RECURSIVE Concat(_)
Concat(ss) == IF ss = <<>> THEN <<>> ELSE Head(ss) \o Concat(Tail(ss))

\* s with x inserted so that it becomes element i (1-based); Vec::insert(i-1, x)
InsertAt(s, i, x) == SubSeq(s, 1, i - 1) \o <<x>> \o SubSeq(s, i, Len(s))

IsPrefix(p, s) == Len(p) <= Len(s) /\ SubSeq(s, 1, Len(p)) = p

RECURSIVE CommonPrefixLen(_, _, _)
CommonPrefixLen(a, b, n) ==
    IF n < Len(a) /\ n < Len(b) /\ a[n + 1] = b[n + 1]
    THEN CommonPrefixLen(a, b, n + 1)
    ELSE n

\* builder::get_common_ancestor: the longest common prefix of two scopes
get_common_ancestor(a, b) == SubSeq(a, 1, CommonPrefixLen(a, b, 0))

----------------------------------------------------------------------------
(* Types (tipo::Type) and the predicates the generator uses on them *)

TInt == <<"Int">>
TBytes == <<"ByteArray">>
TBool == <<"Bool">>
TString == <<"String">>
TVoid == <<"Void">>
TApp(module, name) == <<"App", module, name>>
TTuple(elems) == <<"Tuple", elems>>
TList(inner) == <<"List", inner>>
TFn(args, ret) == <<"Fn", args, ret>>
TGeneric(id) == <<"Generic", id>>

is_int(t) == t[1] = "Int"
is_bytearray(t) == t[1] = "ByteArray"
is_bool(t) == t[1] = "Bool"
is_string(t) == t[1] = "String"
is_void(t) == t[1] = "Void"
is_list(t) == t[1] = "List"
is_tuple(t) == t[1] = "Tuple"
is_fn(t) == t[1] = "Fn"

RECURSIVE is_generic(_)
is_generic(t) ==
    CASE t[1] = "Generic" -> TRUE
      [] t[1] = "Fn" -> (\E i \in 1..Len(t[2]) : is_generic(t[2][i])) \/ is_generic(t[3])
      [] t[1] = "Tuple" -> \E i \in 1..Len(t[2]) : is_generic(t[2][i])
      [] t[1] = "List" -> is_generic(t[2])
      [] OTHER -> FALSE

\* Type::arg_types: the argument types of a function type
arg_types(t) == IF is_fn(t) THEN t[2] ELSE <<>>

\* Type::get_inner_types
get_inner_types(t) ==
    CASE is_tuple(t) -> t[2]
      [] is_list(t) -> <<t[2]>>
      [] OTHER -> <<>>

\* Type::get_uplc_type is Pair(_, _) exactly for 2-tuples
is_pair(t) == is_tuple(t) /\ Len(t[2]) = 2

\* Type::is_map: a list whose elements are 2-tuples
is_map(t) == is_list(t) /\ is_pair(t[2])

----------------------------------------------------------------------------
(* Value constructors (tipo::ValueConstructor with its variant) *)

LocalVariable(tipo) ==
    [variant |-> "LocalVariable", tipo |-> tipo, name |-> "", module |-> "",
     arity |-> 0, field_map |-> <<>>, has_field_map |-> FALSE]

ModuleFn(name, module, arity, tipo) ==
    [variant |-> "ModuleFn", tipo |-> tipo, name |-> name, module |-> module,
     arity |-> arity, field_map |-> <<>>, has_field_map |-> FALSE]

\* field_map: the labels in index order (FieldMap.fields sorted by index)
RecordConstructor(name, field_map, has_field_map, arity, tipo) ==
    [variant |-> "Record", tipo |-> tipo, name |-> name, module |-> "",
     arity |-> arity, field_map |-> field_map, has_field_map |-> has_field_map]

FunctionAccessKey(module, name, variant) ==
    [module_name |-> module, function_name |-> name, variant_name |-> variant]

----------------------------------------------------------------------------
(* AIR instructions (air::Air); every instruction carries its scope *)

AirInt(scope, value) == [air |-> "Int", scope |-> scope, value |-> value]
AirVar(scope, constructor, name, variant_name) ==
    [air |-> "Var", scope |-> scope, constructor |-> constructor, name |-> name,
     variant_name |-> variant_name]
AirFn(scope, params) == [air |-> "Fn", scope |-> scope, params |-> params]
AirList(scope, count, tipo, tail) ==
    [air |-> "List", scope |-> scope, count |-> count, tipo |-> tipo, tail |-> tail]
AirCall(scope, count) == [air |-> "Call", scope |-> scope, count |-> count]
AirBinOp(scope, name, tipo) ==
    [air |-> "BinOp", scope |-> scope, name |-> name, count |-> 2, tipo |-> tipo]
AirAssignment(scope, name) == [air |-> "Assignment", scope |-> scope, name |-> name]
AirDefineFunc(scope, func_name, module_name, params, recursive, variant_name) ==
    [air |-> "DefineFunc", scope |-> scope, func_name |-> func_name,
     module_name |-> module_name, params |-> params, recursive |-> recursive,
     variant_name |-> variant_name]
AirLam(scope, name) == [air |-> "Lam", scope |-> scope, name |-> name]
AirWhen(scope, subject_name, tipo) ==
    [air |-> "When", scope |-> scope, subject_name |-> subject_name, tipo |-> tipo]
AirClause(scope, tipo, complex_clause, subject_name) ==
    [air |-> "Clause", scope |-> scope, tipo |-> tipo,
     complex_clause |-> complex_clause, subject_name |-> subject_name]
AirTupleClause(scope, tipo, indices, predefined_indices, subject_name, count, complex_clause) ==
    [air |-> "TupleClause", scope |-> scope, tipo |-> tipo, indices |-> indices,
     predefined_indices |-> predefined_indices, subject_name |-> subject_name,
     count |-> count, complex_clause |-> complex_clause]
AirFinally(scope) == [air |-> "Finally", scope |-> scope]
\* next_tail_name: <<>> for None, <<name>> for Some(name)
AirListClause(scope, tipo, tail_name, next_tail_name, complex_clause, inverse) ==
    [air |-> "ListClause", scope |-> scope, tipo |-> tipo,
     tail_name |-> tail_name, next_tail_name |-> next_tail_name,
     complex_clause |-> complex_clause, inverse |-> inverse]
\* tail: <<>> for None, <<(tail_var, tail_name)>> for Some
AirListExpose(scope, tipo, tail_head_names, tail) ==
    [air |-> "ListExpose", scope |-> scope, tipo |-> tipo,
     tail_head_names |-> tail_head_names, tail |-> tail]
AirIf(scope) == [air |-> "If", scope |-> scope]
AirDiscard(scope) == [air |-> "Discard", scope |-> scope]
AirRecordAccess(scope, index, tipo) ==
    [air |-> "RecordAccess", scope |-> scope, index |-> index, tipo |-> tipo]
AirFieldsExpose(scope, count, indices) ==
    [air |-> "FieldsExpose", scope |-> scope, count |-> count, indices |-> indices]
AirListAccessor(scope, names, tail, tipo) ==
    [air |-> "ListAccessor", scope |-> scope, names |-> names, tail |-> tail,
     tipo |-> tipo]
AirTupleAccessor(scope, names, tipo) ==
    [air |-> "TupleAccessor", scope |-> scope, names |-> names, tipo |-> tipo]
AirTuple(scope, tipo, count) ==
    [air |-> "Tuple", scope |-> scope, tipo |-> tipo, count |-> count]
AirTupleIndex(scope, tipo, index) ==
    [air |-> "TupleIndex", scope |-> scope, tipo |-> tipo, index |-> index]
AirUnOp(scope, op) == [air |-> "UnOp", scope |-> scope, op |-> op]
AirTrace(scope) == [air |-> "Trace", scope |-> scope]
AirTodo(scope) == [air |-> "Todo", scope |-> scope]
AirErrorTerm(scope) == [air |-> "ErrorTerm", scope |-> scope]

----------------------------------------------------------------------------
(* Typed expressions (expr::TypedExpr) and patterns (ast::Pattern) *)

EInt(value) == [expr |-> "Int", value |-> value]
EVar(constructor, name) == [expr |-> "Var", constructor |-> constructor, name |-> name]
EFn(args, body) == [expr |-> "Fn", args |-> args, body |-> body]
EList(elements, tail, tipo) ==
    [expr |-> "List", elements |-> elements, tail |-> tail, tipo |-> tipo]
ECall(fun, args) == [expr |-> "Call", fun |-> fun, args |-> args]
EBinOp(name, left, right, tipo) ==
    [expr |-> "BinOp", name |-> name, left |-> left, right |-> right, tipo |-> tipo]
ESequence(expressions) == [expr |-> "Sequence", expressions |-> expressions]
EAssignment(pattern, value, tipo) ==
    [expr |-> "Assignment", pattern |-> pattern, value |-> value, tipo |-> tipo]
\* subject_tipo is subjects[0].tipo()
EWhen(subject, subject_tipo, clauses) ==
    [expr |-> "When", subject |-> subject, tipo |-> subject_tipo, clauses |-> clauses]
EIf(branches, final_else) ==
    [expr |-> "If", branches |-> branches, final_else |-> final_else]
ERecordAccess(record, index, tipo) ==
    [expr |-> "RecordAccess", record |-> record, index |-> index, tipo |-> tipo]
ETuple(elems, tipo) == [expr |-> "Tuple", elems |-> elems, tipo |-> tipo]
\* module_name is the module selected from, module the one of the constructor
EModuleSelect(module_name, module, name, tipo) ==
    [expr |-> "ModuleSelect", module_name |-> module_name, module |-> module,
     name |-> name, tipo |-> tipo]
\* tuple_tipo is tuple.tipo()
ETupleIndex(tuple, tuple_tipo, index) ==
    [expr |-> "TupleIndex", tuple |-> tuple, tipo |-> tuple_tipo, index |-> index]
EUnOp(op, value) == [expr |-> "UnOp", op |-> op, value |-> value]
ETrace(then) == [expr |-> "Trace", then |-> then]
ETodo == [expr |-> "Todo"]
EErrorTerm == [expr |-> "ErrorTerm"]

ClauseOf(pattern, then) == [pattern |-> pattern, then |-> then]
Branch(condition, body) == [condition |-> condition, body |-> body]

PInt(value) == [pat |-> "Int", value |-> value]
PVar(name) == [pat |-> "Var", name |-> name]
PDiscard == [pat |-> "Discard"]
PAssign(name, pattern) == [pat |-> "Assign", name |-> name, pattern |-> pattern]
\* arguments: sequence of [label, value]; field_map: labels in index order
PConstructor(name, arguments, is_record, field_map, tipo) ==
    [pat |-> "Constructor", name |-> name, arguments |-> arguments,
     is_record |-> is_record, field_map |-> field_map, tipo |-> tipo]
PTuple(elems) == [pat |-> "Tuple", elems |-> elems]
PList(elements, tail) == [pat |-> "List", elements |-> elements, tail |-> tail]
CallArg(label, value) == [label |-> label, value |-> value]


----------------------------------------------------------------------------
(* The program context handed to CodeGenerator::new: data types *)

TBool2 == TApp("", "Bool2")
TPoint == TApp("", "Point")
TBox == TApp("", "Box")
TOpt == TApp("", "Opt")
TShape == TApp("", "Shape")
TUser == TApp("", "User")

Constr(name, labels) == [name |-> name, arguments |-> labels]

\* data_types: DataTypeKey{module_name, defined_type} -> constructors, in order
data_types(module, name) ==
    CASE name = "Bool2" -> <<Constr("A", <<>>), Constr("B", <<>>)>>
      [] name = "Point" -> <<Constr("Point", <<"px", "py">>)>>
      [] name = "Box" -> <<Constr("Box", <<"", "">>)>>
      [] name = "Opt" -> <<Constr("Some", <<"">>), Constr("None", <<>>)>>
      [] name = "Shape" -> <<Constr("Triple", <<"", "", "">>),
                             Constr("Mixed", <<"", "">>)>>
      [] name = "User" -> <<Constr("User", <<"uid", "name">>)>>
      [] OTHER -> <<>>

\* the data type a constructor pattern's type names (Fn -> App, or App)
data_type_of(tipo) ==
    IF is_fn(tipo) THEN data_types(tipo[3][2], tipo[3][3])
    ELSE data_types(tipo[2], tipo[3])

\* the position of the first constructor, whatever the name
constr_index_first(constructors, constr_name) == 0

\* position (0-based) of the constructor called constr_name
constr_index_of(constructors, constr_name) ==
    (CHOOSE i \in 1..Len(constructors) : constructors[i].name = constr_name) - 1

----------------------------------------------------------------------------
(* Pattern lowering for `when` clauses *)

Res(ir, id, nfa) == [ir |-> ir, id |-> id, nfa |-> nfa]

\* builder::ClauseProperties::init
ClausePropertiesInit(tipo, constr_var, subject_name) ==
    [kind |-> IF is_list(tipo) THEN "ListClause"
              ELSE IF is_tuple(tipo) THEN "TupleClause" ELSE "ConstrClause",
     clause_var_name |-> constr_var,
     needs_constr_var |-> FALSE,
     is_complex_clause |-> FALSE,
     original_subject_name |-> subject_name,
     current_index |-> 0,
     defined_tuple_indices |-> {}]

\* builder::check_when_pattern_needs
check_when_pattern_needs(pattern, cp) ==
    CASE pattern.pat = "Var" -> [cp EXCEPT !.needs_constr_var = TRUE]
      [] pattern.pat \in {"List", "Constructor", "Tuple"} ->
            [cp EXCEPT !.needs_constr_var = TRUE, !.is_complex_clause = TRUE]
      [] OTHER -> cp

RECURSIVE check_all_pattern_needs(_, _)
check_all_pattern_needs(patterns, cp) ==
    IF patterns = <<>> THEN cp
    ELSE check_all_pattern_needs(Tail(patterns),
                                 check_when_pattern_needs(Head(patterns), cp))

\* nested_pattern_ir_and_label on the patterns without nesting:
\* Var gives Some(name), Discard gives None
nested_pattern_ir_and_label(pattern) ==
    IF pattern.pat = "Var" THEN [some |-> TRUE, name |-> pattern.name]
    ELSE [some |-> FALSE, name |-> "_"]

\* position (0-based) of label in the field map, 0 when absent (unwrap_or(&0))
field_index_of(field_map, label) ==
    IF \E i \in 1..Len(field_map) : field_map[i] = label
    THEN (CHOOSE i \in 1..Len(field_map) : field_map[i] = label) - 1
    ELSE 0

\* Itertools::sorted_by on the field index (a stable sort)
sorted_by_index(items, n) ==
    Concat([i \in 1..n |-> SelectSeq(items, LAMBDA it : it.index = i - 1)])

\* the (index, name, type) entries a constructor pattern exposes: the arguments
\* that bind a name, by field map for records and by position otherwise
constructor_indices(pattern) ==
    LET args == pattern.arguments
        types == arg_types(pattern.tipo)
        entry(i) ==
            LET idx == IF pattern.is_record
                       THEN field_index_of(pattern.field_map, args[i].label)
                       ELSE i - 1
            IN [index |-> idx,
                name |-> nested_pattern_ir_and_label(args[i].value).name,
                tipo |-> types[idx + 1]]
        all == [i \in 1..Len(args) |-> entry(i)]
        bound == SelectSeq([i \in 1..Len(args) |-> i],
                           LAMBDA i : nested_pattern_ir_and_label(args[i].value).some)
        kept == [k \in 1..Len(bound) |-> all[bound[k]]]
    IN IF pattern.is_record THEN sorted_by_index(kept, Len(types)) ELSE kept

\* when_recursive_ir; gives the instructions appended to pattern_vec and the
\* clause properties it leaves
when_recursive_ir(pattern, values, cp, tipo, scope) ==
    CASE pattern.pat = "Discard" ->
            [ir |-> <<AirDiscard(scope)>> \o values, cp |-> cp]
      [] pattern.pat = "Constructor" ->
            LET indices == constructor_indices(pattern)
            IN [ir |-> (IF indices # <<>>
                        THEN <<AirFieldsExpose(scope, Len(indices) + 2, indices)>>
                        ELSE <<>>) \o values,
                cp |-> cp]
      [] pattern.pat = "List" ->
            LET elements == pattern.elements
                names == [i \in 1..Len(elements) |->
                            nested_pattern_ir_and_label(elements[i]).name]
                tail_name == IF pattern.tail # <<>> /\ pattern.tail[1].pat = "Var"
                             THEN pattern.tail[1].name ELSE ""
                named == SelectSeq([i \in 1..Len(names) |-> i],
                                   LAMBDA i : names[i] # "_")
                tail_head_names ==
                    [k \in 1..Len(named) |->
                        <<IF named[k] = 1 THEN cp.original_subject_name
                          ELSE "__tail_" \o ToString(named[k] - 2),
                          names[named[k]]>>]
                tail_var == IF Len(elements) = 1 THEN cp.original_subject_name
                            ELSE "__tail_" \o ToString(Len(elements) - 2)
            IN [ir |-> <<AirListExpose(
                           scope, tipo, tail_head_names,
                           IF pattern.tail # <<>> /\ elements # <<>>
                           THEN <<<<tail_var, tail_name>>>> ELSE <<>>)>>
                       \o values,
                cp |-> cp]
      [] pattern.pat = "Tuple" ->
            LET elems == pattern.elems
                names == [i \in 1..Len(elems) |->
                            <<nested_pattern_ir_and_label(elems[i]).name, i - 1>>]
                defined == cp.defined_tuple_indices
                is_defined(index) == \E d \in defined : d[1] = index
                previous == SelectSeq(names, LAMBDA n : is_defined(n[2]))
                alias(n) ==
                    LET d == CHOOSE d \in defined : d[1] = n[2]
                    IN <<AirLam(scope, n[1]),
                         AirVar(scope, LocalVariable(get_inner_types(tipo)[d[1] + 1]),
                                d[2], "")>>
                fresh == {<<names[i][2], names[i][1]>> : i \in
                            {j \in 1..Len(names) : ~is_defined(names[j][2])}}
            IN [ir |-> Concat([i \in 1..Len(previous) |-> alias(previous[i])])
                       \o values,
                cp |-> [cp EXCEPT !.defined_tuple_indices = defined \cup fresh]]

RECURSIVE when_ir(_, _, _, _, _)
\* when_ir; gives the instructions appended to pattern_vec and the clause
\* properties it leaves
when_ir(pattern, values, tipo, cp, scope) ==
    CASE pattern.pat = "Int" ->
            [ir |-> <<AirInt(scope, pattern.value)>> \o values, cp |-> cp]
      [] pattern.pat = "Var" ->
            [ir |-> <<AirDiscard(scope), AirLam(scope, pattern.name),
                      AirVar(scope, LocalVariable(tipo),
                             cp.original_subject_name, "")>> \o values,
             cp |-> cp]
      [] pattern.pat = "Assign" ->
            when_ir(pattern.pattern,
                    <<AirLam(scope, pattern.name),
                      AirVar(scope, LocalVariable(tipo),
                             cp.original_subject_name, "")>> \o values,
                    tipo, cp, scope)
      [] pattern.pat = "Discard" ->
            [ir |-> <<AirDiscard(scope)>> \o values, cp |-> cp]
      [] pattern.pat = "List" ->
            LET cp1 == [check_all_pattern_needs(pattern.elements \o pattern.tail,
                                                cp)
                          EXCEPT !.needs_constr_var = FALSE]
                rec == when_recursive_ir(pattern, values, cp1, tipo, scope)
            IN [ir |-> <<AirDiscard(scope)>> \o rec.ir, cp |-> rec.cp]
      [] pattern.pat = "Constructor" ->
            LET temp == check_all_pattern_needs(
                            [i \in 1..Len(pattern.arguments) |->
                                pattern.arguments[i].value],
                            [cp EXCEPT !.needs_constr_var = FALSE])
                data_type == data_type_of(tipo)
                index == constr_index_of(data_type, pattern.name)
                new_vec == <<AirVar(scope, LocalVariable(tipo),
                                    temp.clause_var_name, "")>>
                rec == when_recursive_ir(
                           pattern,
                           IF temp.needs_constr_var THEN new_vec ELSE <<>>,
                           cp, tipo, scope)
            IN [ir |-> (IF Len(data_type) > 1
                        THEN <<AirInt(scope, index)>> ELSE <<>>)
                       \o rec.ir \o values,
                cp |-> [rec.cp EXCEPT
                          !.is_complex_clause = rec.cp.is_complex_clause
                                                \/ temp.is_complex_clause,
                          !.needs_constr_var = rec.cp.needs_constr_var
                                               \/ temp.needs_constr_var]]
      [] pattern.pat = "Tuple" ->
            LET cp1 == [check_all_pattern_needs(pattern.elems, cp)
                          EXCEPT !.needs_constr_var = FALSE]
                rec == when_recursive_ir(pattern, <<>>, cp1, tipo, scope)
            IN [ir |-> rec.ir \o values, cp |-> rec.cp]

----------------------------------------------------------------------------
(* Pattern lowering for assignments *)

\* the names a list or tuple pattern binds (its Var elements)
pattern_names(patterns) == [i \in 1..Len(patterns) |-> patterns[i].name]

\* pattern_ir; gives the instructions appended to pattern_vec
pattern_ir(pattern, values, tipo, scope) ==
    CASE pattern.pat = "Discard" -> <<AirDiscard(scope)>> \o values
      [] pattern.pat = "List" ->
            <<AirListAccessor(scope,
                              pattern_names(pattern.elements)
                                \o pattern_names(SelectSeq(pattern.tail,
                                                 LAMBDA t : t.pat = "Var")),
                              pattern.tail # <<>>, tipo)>> \o values
      [] pattern.pat = "Constructor" ->
            LET indices == constructor_indices(pattern)
            IN (IF indices # <<>>
                THEN <<AirFieldsExpose(scope, Len(indices) + 2, indices)>>
                ELSE <<>>) \o values
      [] pattern.pat = "Tuple" ->
            <<AirTupleAccessor(scope, pattern_names(pattern.elems), tipo)>>
              \o values

\* assignment_ir
assignment_ir(pattern, value_vec, tipo, scope) ==
    IF pattern.pat = "Var"
    THEN <<AirAssignment(scope, pattern.name)>> \o value_vec
    ELSE pattern_ir(pattern, value_vec, tipo, scope)


----------------------------------------------------------------------------
(* Clause canonicalization for list patterns (builder::rearrange_clauses) *)

is_list_pattern(clause) == clause.pattern.pat = "List"

\* the number of elements of the longest list pattern of clauses
longest_pattern(clauses) ==
    IF \A i \in 1..Len(clauses) : ~is_list_pattern(clauses[i]) THEN 0
    ELSE LET lengths == {Len(clauses[i].pattern.elements) :
                           i \in {j \in 1..Len(clauses) :
                                     is_list_pattern(clauses[j])}}
         IN CHOOSE n \in lengths : \A m \in lengths : m <= n

\* the list patterns in non-decreasing length, ties in source order, and the
\* variable and discard patterns after them
rearrange_clauses(clauses) ==
    Concat([n \in 1..longest_pattern(clauses) + 1 |->
               SelectSeq(clauses,
                         LAMBDA c : /\ is_list_pattern(c)
                                    /\ Len(c.pattern.elements) = n - 1)])
    \o SelectSeq(clauses, LAMBDA c : ~is_list_pattern(c))

----------------------------------------------------------------------------
(* The program context handed to CodeGenerator::new: functions *)

TFnInt == TFn(<<TInt>>, TInt)
Arg(name, tipo) == [name |-> name, tipo |-> tipo]
Function(arguments, body) == [arguments |-> arguments, body |-> body]

Local(name, tipo) == EVar(LocalVariable(tipo), name)
FnRef(name, tipo) == EVar(ModuleFn(name, "", Len(arg_types(tipo)), tipo), name)
CallFn(name, tipo, args) == ECall(FnRef(name, tipo), args)
\* a call of the function `name` of another module, imported by its name
CallIn(module, name, tipo, args) ==
    ECall(EVar(ModuleFn(name, module, Len(arg_types(tipo)), tipo), name), args)
\* a call of that function imported under another name (`use m.{name as used}`)
CallAs(module, name, used, tipo, args) ==
    ECall(EVar(ModuleFn(name, module, Len(arg_types(tipo)), tipo), used), args)

PointCons == EVar(RecordConstructor("Point", <<"px", "py">>, TRUE, 2,
                                    TFn(<<TInt, TInt>>, TPoint)), "Point")
APoint == ECall(PointCons, <<EInt(1), EInt(2)>>)

FunctionNames == {"f", "g", "k", "z", "r", "id", "h", "zp", "ze", "zr"}

\* functions: FunctionAccessKey (with the empty variant) -> TypedFunction
functions(module, name) ==
    CASE module = "lib" /\ name = "inc" ->
            Function(<<Arg("n", TInt)>>, Local("n", TInt))
      [] module = "lib" -> Function(<<>>, EInt(5))
      [] name = "f" -> Function(<<Arg("x", TInt)>>, Local("x", TInt))
      [] name = "g" -> Function(<<Arg("y", TInt)>>,
                                CallFn("f", TFnInt, <<Local("y", TInt)>>))
      [] name = "k" -> Function(<<Arg("a", TInt)>>,
                                EBinOp("AddInt",
                                       CallFn("f", TFnInt, <<Local("a", TInt)>>),
                                       CallFn("g", TFnInt, <<Local("a", TInt)>>),
                                       TInt))
      [] name = "z" -> Function(<<>>, CallFn("f", TFnInt, <<EInt(1)>>))
      [] name = "r" -> Function(<<Arg("n", TInt)>>,
                                CallFn("r", TFnInt, <<Local("n", TInt)>>))
      [] name = "id" -> Function(<<Arg("a", TGeneric(1))>>,
                                 Local("a", TGeneric(1)))
      [] name = "h" -> Function(<<Arg("p", TPoint)>>,
                                ERecordAccess(Local("p", TPoint), 0, TInt))
      [] name = "zp" -> Function(<<>>, ERecordAccess(APoint, 1, TInt))
      [] name = "ze" -> Function(<<>>, EErrorTerm)
      [] name = "zr" -> Function(<<>>, CallFn("r", TFnInt, <<EInt(1)>>))

\* the keys of functions: the module functions and the functions z and inc
\* of lib
has_function(module, name) ==
    \/ module = "" /\ name \in FunctionNames
    \/ module = "lib" /\ name \in {"z", "inc"}

----------------------------------------------------------------------------
(* Expression lowering: build_ir.  The id generator and needs_field_access   *)
(* are threaded through: every operator takes the next id and the flag and  *)
(* gives them back with the instructions it emitted.                        *)

\* the end of the When arm of build_ir as it would be with the subject in
\* front of the When instruction in both cases
when_instructions_subject_first(scope, constr_var, subject_name, tipo, needs_constr_var, s, pattern_vec) ==
    IF needs_constr_var
    THEN Res(<<AirLam(scope, constr_var)>> \o s.ir
               \o <<AirWhen(scope, subject_name, tipo),
                    AirVar(scope \o <<s.id>>, LocalVariable(tipo),
                           constr_var, "")>>
               \o pattern_vec,
             s.id + 1, s.nfa)
    ELSE Res(s.ir \o <<AirWhen(scope, subject_name, tipo)>> \o pattern_vec,
             s.id, s.nfa)

\* the end of the When arm of build_ir: the instructions around the lowered
\* subject s, in front of the instructions of the clauses
when_instructions(scope, constr_var, subject_name, tipo, needs_constr_var, s, pattern_vec) ==
    IF needs_constr_var
    THEN Res(<<AirLam(scope, constr_var)>> \o s.ir
               \o <<AirWhen(scope, subject_name, tipo),
                    AirVar(scope \o <<s.id>>, LocalVariable(tipo),
                           constr_var, "")>>
               \o pattern_vec,
             s.id + 1, s.nfa)
    ELSE Res(<<AirWhen(scope, subject_name, tipo)>> \o s.ir \o pattern_vec,
             s.id, s.nfa)

RECURSIVE build_ir(_, _, _, _)
RECURSIVE build_children(_, _, _, _)
RECURSIVE build_branches(_, _, _, _, _)
RECURSIVE handle_each_clause(_, _, _, _, _, _)

\* the instructions of an expression after the instruction that heads them
after(head, r) == Res(head \o r.ir, r.id, r.nfa)

\* each expression lowered under its own fresh child scope, left to right
build_children(exprs, scope, id, nfa) ==
    IF exprs = <<>> THEN Res(<<>>, id, nfa)
    ELSE LET tail(h) ==
               after(h.ir, build_children(Tail(exprs), scope, h.id, h.nfa))
         IN tail(build_ir(Head(exprs), scope \o <<id>>, id + 1, nfa))

\* the branches of an If: the first If instruction shares the parent scope
build_branches(branches, index, scope, id, nfa) ==
    IF index > Len(branches) THEN Res(<<>>, id, nfa)
    ELSE LET branch_scope == scope \o <<id>>
             if_ir == <<AirIf(IF index = 1 THEN scope ELSE branch_scope)>>
             others(c, b) ==
               after(if_ir \o c.ir \o b.ir,
                     build_branches(branches, index + 1, scope, b.id, b.nfa))
             body(c) ==
               others(c, build_ir(branches[index].body, branch_scope,
                                  c.id, c.nfa))
         IN body(build_ir(branches[index].condition, branch_scope, id + 1, nfa))

\* handle_each_clause: the clauses before the last one
handle_each_clause(clauses, cp, subject_type, scope, id, nfa) ==
    IF clauses = <<>> THEN [ir |-> <<>>, cp |-> cp, id |-> id, nfa |-> nfa]
    ELSE
      LET clause == Head(clauses)
          cscope == scope \o <<id>>
          cp0 == [cp EXCEPT !.is_complex_clause = FALSE]
          head(w) ==
            IF cp.kind = "TupleClause"
            THEN AirTupleClause(cscope, subject_type,
                                w.cp.defined_tuple_indices
                                  \ cp0.defined_tuple_indices,
                                cp0.defined_tuple_indices,
                                cp0.original_subject_name,
                                Len(get_inner_types(subject_type)),
                                w.cp.is_complex_clause)
            ELSE IF cp.kind = "ListClause"
            THEN AirListClause(
                     cscope, subject_type,
                     IF cp.current_index = 0 THEN cp0.original_subject_name
                     ELSE "__tail_" \o ToString(cp.current_index - 1),
                     IF Tail(clauses) = <<>> THEN <<>>
                     ELSE <<"__tail_" \o ToString(cp.current_index)>>,
                     w.cp.is_complex_clause, FALSE)
            ELSE AirClause(cscope, subject_type, w.cp.is_complex_clause,
                           cp0.original_subject_name)
          next_clause(w) ==
            IF cp.kind = "ListClause"
            THEN [w.cp EXCEPT !.current_index = w.cp.current_index + 1]
            ELSE w.cp
          joined(w, rest) ==
            [ir |-> <<head(w)>> \o w.ir \o rest.ir, cp |-> rest.cp,
             id |-> rest.id, nfa |-> rest.nfa]
          following(then, w) ==
            joined(w, handle_each_clause(Tail(clauses), next_clause(w),
                                         subject_type, scope, then.id,
                                         then.nfa))
          pattern(then) ==
            following(then, when_ir(clause.pattern, then.ir, subject_type,
                                    cp0, cscope))
      IN pattern(build_ir(clause.then, cscope, id + 1, nfa))

build_ir(body, scope, id, nfa) ==
    CASE body.expr = "Int" -> Res(<<AirInt(scope, body.value)>>, id, nfa)
      [] body.expr = "Sequence" ->
            LET tail(h) ==
                  after(h.ir, build_children(Tail(body.expressions), scope,
                                             h.id, h.nfa))
            IN tail(build_ir(Head(body.expressions), scope, id, nfa))
      [] body.expr = "Var" ->
            Res(<<AirVar(scope, body.constructor, body.name, "")>>, id, nfa)
      [] body.expr = "Fn" ->
            after(<<AirFn(scope, body.args)>>,
                  build_ir(body.body, scope \o <<id>>, id + 1, nfa))
      [] body.expr = "List" ->
            after(<<AirList(scope, Len(body.elements), body.tipo,
                            body.tail # <<>>)>>,
                  build_children(body.elements \o body.tail, scope, id, nfa))
      [] body.expr = "Call" ->
            after(<<AirCall(scope, Len(body.args))>>,
                  build_children(<<body.fun>> \o body.args, scope, id, nfa))
      [] body.expr = "BinOp" ->
            LET right(l) ==
                  after(<<AirBinOp(scope, body.name, body.tipo)>> \o l.ir,
                        build_ir(body.right, scope \o <<id + 1>>, l.id, l.nfa))
            IN right(build_ir(body.left, scope \o <<id>>, id + 2, nfa))
      [] body.expr = "Assignment" ->
            LET assigned(v) ==
                  Res(assignment_ir(body.pattern, v.ir, body.tipo, scope),
                      v.id, v.nfa)
            IN assigned(build_ir(body.value, scope \o <<id>>, id + 1, nfa))
      [] body.expr = "When" ->
            LET subject_name == "__subject_name_" \o ToString(id)
                constr_var == "__constr_name_" \o ToString(id + 1)
                clauses == IF is_list_pattern(body.clauses[1])
                           THEN rearrange_clauses(body.clauses)
                           ELSE body.clauses
                last_clause == Last(clauses)
                subject(pattern_vec, needs_constr_var, fin) ==
                  when_instructions(
                      scope, constr_var, subject_name, body.tipo,
                      needs_constr_var,
                      IF needs_constr_var
                      THEN build_ir(body.subject, scope, fin.id, fin.nfa)
                      ELSE build_ir(body.subject, scope \o <<fin.id>>,
                                    fin.id + 1, fin.nfa),
                      pattern_vec)
                finally(hec, final_scope, fin, w) ==
                  subject(hec.ir \o <<AirFinally(final_scope)>> \o w.ir,
                          w.cp.needs_constr_var, fin)
                last_pattern(hec, final_scope, fin) ==
                  finally(hec, final_scope, fin,
                          when_ir(last_clause.pattern, fin.ir, body.tipo,
                                  hec.cp, final_scope))
                last_then(hec, final_scope) ==
                  last_pattern(hec, final_scope,
                               build_ir(last_clause.then, final_scope,
                                        hec.id + 1, hec.nfa))
                final(hec) == last_then(hec, scope \o <<hec.id>>)
            IN final(handle_each_clause(
                         Front(clauses),
                         ClausePropertiesInit(body.tipo, constr_var, subject_name),
                         body.tipo, scope, id + 2, nfa))
      [] body.expr = "If" ->
            LET else(b) ==
                  after(b.ir, build_ir(body.final_else, scope \o <<b.id>>,
                                       b.id + 1, b.nfa))
            IN else(build_branches(body.branches, 1, scope, id, nfa))
      [] body.expr = "RecordAccess" ->
            after(<<AirRecordAccess(scope, body.index, body.tipo)>>,
                  build_ir(body.record, scope, id, TRUE))
      [] body.expr = "ModuleSelect" /\ has_function(body.module_name, body.name) ->
            Res(<<AirVar(scope,
                         ModuleFn(body.name, body.module,
                                  Len(functions(body.module_name,
                                                body.name).arguments),
                                  body.tipo),
                         body.module \o "_" \o body.name, "")>>,
                id, nfa)
      [] body.expr = "Todo" -> Res(<<AirTodo(scope)>>, id, nfa)
      [] body.expr = "UnOp" ->
            after(<<AirUnOp(scope, body.op)>>,
                  build_ir(body.value, scope, id, nfa))
      [] body.expr = "Tuple" ->
            after(<<AirTuple(scope, body.tipo, Len(body.elems))>>,
                  build_children(body.elems, scope, id, nfa))
      [] body.expr = "Trace" ->
            after(<<AirTrace(scope)>>,
                  build_ir(body.then, scope \o <<id>>, id + 1, nfa))
      [] body.expr = "TupleIndex" ->
            after(<<AirTupleIndex(scope, body.tipo, body.index)>>,
                  build_ir(body.tuple, scope, id, nfa))
      [] body.expr = "ErrorTerm" -> Res(<<AirErrorTerm(scope)>>, id, nfa)


----------------------------------------------------------------------------
(* IndexMap (insertion ordered) as a sequence of [k, v] entries *)

MapHas(m, k) == \E i \in 1..Len(m) : m[i].k = k
MapPos(m, k) == CHOOSE i \in 1..Len(m) : m[i].k = k
MapGet(m, k) == m[MapPos(m, k)].v
MapKeys(m) == [i \in 1..Len(m) |-> m[i].k]
\* IndexMap::insert: a present key keeps its position
MapInsert(m, k, v) ==
    IF MapHas(m, k) THEN [m EXCEPT ![MapPos(m, k)] = [k |-> k, v |-> v]]
    ELSE Append(m, [k |-> k, v |-> v])
\* IndexMap::shift_remove: the entries after it move up
MapShiftRemove(m, k) ==
    IF MapHas(m, k) THEN SelectSeq(m, LAMBDA e : e.k # k) ELSE m
\* IndexMap::remove (swap_remove): the last entry takes the removed one's place
MapSwapRemove(m, k) ==
    IF ~MapHas(m, k) THEN m
    ELSE LET i == MapPos(m, k)
         IN IF i = Len(m) THEN Front(m)
            ELSE [Front(m) EXCEPT ![i] = Last(m)]

\* HashMap<_, Vec<Air>> as a function: insert
FnInsert(f, k, v) == [x \in (DOMAIN f) \cup {k} |-> IF x = k THEN v ELSE f[x]]
EmptyFn == [x \in {} |-> <<>>]

\* the keys of a HashMap in the iteration order this run of the hasher gives:
\* lists the members of keys in the order of hash_order
RECURSIVE keys_in_hash_order(_, _)
keys_in_hash_order(keys, hash_order) ==
    IF hash_order = <<>> THEN <<>>
    ELSE (IF Head(hash_order) \in keys THEN <<Head(hash_order)>> ELSE <<>>)
         \o keys_in_hash_order(keys, Tail(hash_order))

----------------------------------------------------------------------------
(* Monomorphization (builder::monomorphize, get_generics_and_type) *)

\* the (generic id, concrete type) pairs that unifying a declared argument
\* type with a call site's argument type gives
get_generics_and_type(declared, concrete) ==
    IF declared[1] = "Generic" THEN {<<declared[2], concrete>>} ELSE {}

generics_type_map(function, param_types) ==
    UNION {get_generics_and_type(function.arguments[i].tipo, param_types[i]) :
             i \in {j \in 1..Len(function.arguments) :
                      is_generic(function.arguments[j].tipo)}}

\* the stable string encoding of a concrete type
variant_of_type(t) ==
    CASE is_int(t) -> "_int"
      [] is_bytearray(t) -> "_bytearray"
      [] is_bool(t) -> "_bool"
      [] OTHER -> "_data"

RECURSIVE variant_of_types(_)
variant_of_types(ts) ==
    IF ts = <<>> THEN "" ELSE variant_of_type(Head(ts)) \o variant_of_types(Tail(ts))

replace_generic(t, generics) ==
    IF t[1] = "Generic" /\ \E g \in generics : g[1] = t[2]
    THEN (CHOOSE g \in generics : g[1] = t[2])[2]
    ELSE t

\* monomorphize: replaces the generic types of the body's Var instructions and
\* names the variant after the concrete argument types when any was replaced
monomorphize(ir, generics, full_type) ==
    LET generic_at(i) == ir[i].air = "Var" /\ is_generic(ir[i].constructor.tipo)
        needs_variant == \E i \in 1..Len(ir) : generic_at(i)
        new_air == [i \in 1..Len(ir) |->
                      IF generic_at(i)
                      THEN [ir[i] EXCEPT !.constructor.tipo =
                              replace_generic(ir[i].constructor.tipo, generics)]
                      ELSE ir[i]]
    IN [variant_name |-> IF needs_variant /\ is_fn(full_type)
                         THEN variant_of_types(arg_types(full_type)) ELSE "",
        ir |-> new_air]


----------------------------------------------------------------------------
(* The function-definition planner: process_define_ir *)

is_module_fn_var(a) == a.air = "Var" /\ a.constructor.variant = "ModuleFn"

key_of_var(a) ==
    FunctionAccessKey(a.constructor.module, a.constructor.name, a.variant_name)

FuncComponents(ir, dependencies, recursive, args) ==
    [ir |-> ir, dependencies |-> dependencies, recursive |-> recursive,
     args |-> args]

\* the body of the function lowered under a root scope of its own instead of
\* the scope of the Var that names it
lowered_function_under_new_root(constructor, scope, id, nfa) ==
    LET function == functions(constructor.module, constructor.name)
        lowered(b, m) ==
          [variant_name |-> m.variant_name, ir |-> m.ir, id |-> b.id,
           nfa |-> b.nfa,
           args |-> [i \in 1..Len(function.arguments) |->
                       function.arguments[i].name]]
        monomorphized(b) ==
          lowered(b, monomorphize(b.ir,
                                  generics_type_map(function,
                                                    arg_types(constructor.tipo)),
                                  constructor.tipo))
    IN monomorphized(build_ir(function.body, <<id>>, id + 1, nfa))

\* the lowered body when the variant is named after the call site as well as
\* after the concrete argument types
lowered_function_named_by_site(constructor, scope, id, nfa) ==
    LET function == functions(constructor.module, constructor.name)
        lowered(b, m) ==
          [variant_name |-> IF m.variant_name # "" /\ Len(scope) > 2
                            THEN m.variant_name \o "_inner"
                            ELSE m.variant_name,
           ir |-> m.ir, id |-> b.id, nfa |-> b.nfa,
           args |-> [i \in 1..Len(function.arguments) |->
                       function.arguments[i].name]]
        monomorphized(b) ==
          lowered(b, monomorphize(b.ir,
                                  generics_type_map(function,
                                                    arg_types(constructor.tipo)),
                                  constructor.tipo))
    IN monomorphized(build_ir(function.body, scope, id, nfa))

\* the lowered and monomorphized body of the function a Var at `scope` names
lowered_function(constructor, scope, id, nfa) ==
    LET function == functions(constructor.module, constructor.name)
        lowered(b, m) ==
          [variant_name |-> m.variant_name, ir |-> m.ir, id |-> b.id,
           nfa |-> b.nfa,
           args |-> [i \in 1..Len(function.arguments) |->
                       function.arguments[i].name]]
        monomorphized(b) ==
          lowered(b, monomorphize(b.ir,
                                  generics_type_map(function,
                                                    arg_types(constructor.tipo)),
                                  constructor.tipo))
    IN monomorphized(build_ir(function.body, scope, id, nfa))

RECURSIVE collect_func_calls_without_self(_, _, _, _, _, _, _)
\* the func_calls loop when a reference of the body to function_key itself is
\* not recorded
collect_func_calls_without_self(func_ir, i, function_key, scope, id, nfa, calls_acc) ==
    IF i > Len(func_ir) THEN [calls |-> calls_acc, id |-> id, nfa |-> nfa]
    ELSE IF ~is_module_fn_var(func_ir[i])
    THEN collect_func_calls_without_self(func_ir, i + 1, function_key, scope,
                                         id, nfa, calls_acc)
    ELSE
      LET c == func_ir[i].constructor
          current_func == FunctionAccessKey(c.module, c.name, "")
          current_func_as_variant ==
              FunctionAccessKey(c.module, c.name, function_key.variant_name)
      IN IF function_key = current_func_as_variant
         THEN collect_func_calls_without_self(func_ir, i + 1, function_key,
                                              scope, id, nfa, calls_acc)
         ELSE IF has_function(c.module, c.name) /\ is_fn(c.tipo)
         THEN LET called(l) ==
                    collect_func_calls_without_self(
                        func_ir, i + 1, function_key, scope, l.id, l.nfa,
                        calls_acc \cup
                          {FunctionAccessKey(c.module, c.name, l.variant_name)})
              IN called(lowered_function(c, scope, id, nfa))
         ELSE collect_func_calls_without_self(func_ir, i + 1, function_key,
                                              scope, id, nfa,
                                              calls_acc \cup {current_func})

RECURSIVE collect_func_calls(_, _, _, _, _, _, _)
\* the func_calls loop of process_define_ir over the body func_ir of
\* function_key: the keys of the module functions the body references
collect_func_calls(func_ir, i, function_key, scope, id, nfa, calls_acc) ==
    IF i > Len(func_ir) THEN [calls |-> calls_acc, id |-> id, nfa |-> nfa]
    ELSE IF ~is_module_fn_var(func_ir[i])
    THEN collect_func_calls(func_ir, i + 1, function_key, scope, id, nfa, calls_acc)
    ELSE
      LET c == func_ir[i].constructor
          current_func == FunctionAccessKey(c.module, c.name, "")
          current_func_as_variant ==
              FunctionAccessKey(c.module, c.name, function_key.variant_name)
      IN IF function_key = current_func_as_variant
         THEN collect_func_calls(func_ir, i + 1, function_key, scope, id, nfa,
                                 calls_acc \cup {current_func_as_variant})
         ELSE IF has_function(c.module, c.name) /\ is_fn(c.tipo)
         THEN LET called(l) ==
                    collect_func_calls(
                        func_ir, i + 1, function_key, scope, l.id, l.nfa,
                        calls_acc \cup
                          {FunctionAccessKey(c.module, c.name, l.variant_name)})
              IN called(lowered_function(c, scope, id, nfa))
         ELSE collect_func_calls(func_ir, i + 1, function_key, scope, id, nfa,
                                 calls_acc \cup {current_func})

\* process_define_ir, the arm for a Var that names a module function
process_var(S, index, hash_order) ==
    LET a == S.ir[index]
        c == a.constructor
        scope == a.scope
        rewritten(l) ==
          [S.ir EXCEPT ![index] = AirVar(scope, c, c.name, l.variant_name)]
        first_seen(l, function_key, fcs) ==
          [S EXCEPT !.ir = rewritten(l), !.id = fcs.id, !.nfa = fcs.nfa,
                    !.tbd = MapInsert(S.tbd, function_key, scope),
                    !.fc = MapInsert(S.fc, function_key,
                               FuncComponents(
                                   l.ir,
                                   keys_in_hash_order(fcs.calls \ {function_key},
                                                      hash_order),
                                   function_key \in fcs.calls,
                                   l.args))]
        keyed(l, function_key) ==
          IF MapHas(S.tbd, function_key)
          THEN [S EXCEPT !.ir = rewritten(l), !.id = l.id, !.nfa = l.nfa,
                         !.tbd = MapInsert(S.tbd, function_key,
                                     get_common_ancestor(
                                         scope, MapGet(S.tbd, function_key)))]
          ELSE IF MapHas(S.fc, function_key)
          THEN [S EXCEPT !.ir = rewritten(l), !.id = l.id, !.nfa = l.nfa,
                         !.tbd = MapInsert(S.tbd, function_key, scope)]
          ELSE first_seen(l, function_key,
                          collect_func_calls(l.ir, 1, function_key, scope,
                                             l.id, l.nfa, {}))
        lowered(l) ==
          keyed(l, FunctionAccessKey(c.module, c.name, l.variant_name))
    IN lowered(lowered_function(c, scope, S.id, S.nfa))

RECURSIVE process_other_forgetful(_, _, _)
\* process_other as it would be if it forgot the scope func_index_map already
\* holds for the function: the enclosing scope always replaces it
process_other_forgetful(S, scope, entries) ==
    IF entries = <<>> THEN S
    ELSE
      LET func == Head(entries)
          S1 ==
            IF get_common_ancestor(scope, func.v) # scope THEN S
            ELSE [S EXCEPT !.fim = MapInsert(S.fim, func.k, scope),
                           !.tbd = MapShiftRemove(S.tbd, func.k)]
      IN process_other_forgetful(S1, scope, Tail(entries))

RECURSIVE process_other(_, _, _)
\* process_define_ir, the arm for any other instruction: the functions still
\* to be defined (entries, a snapshot of to_be_defined_map) that `scope` encloses
process_other(S, scope, entries) ==
    IF entries = <<>> THEN S
    ELSE
      LET func == Head(entries)
          S1 ==
            IF get_common_ancestor(scope, func.v) # scope THEN S
            ELSE IF MapHas(S.fim, func.k)
            THEN LET index_scope == MapGet(S.fim, func.k)
                 IN IF get_common_ancestor(index_scope, func.v) = scope
                    THEN [S EXCEPT !.fim = MapInsert(S.fim, func.k, scope),
                                   !.tbd = MapShiftRemove(S.tbd, func.k)]
                    ELSE [S EXCEPT !.tbd = MapInsert(S.tbd, func.k,
                                       get_common_ancestor(index_scope, func.v))]
            ELSE [S EXCEPT !.fim = MapInsert(S.fim, func.k, scope),
                           !.tbd = MapShiftRemove(S.tbd, func.k)]
      IN process_other(S1, scope, Tail(entries))

RECURSIVE process_loop(_, _, _)
\* the reverse iteration of process_define_ir over the instructions
process_loop(S, index, hash_order) ==
    IF index = 0 THEN S
    ELSE process_loop(
             IF S.ir[index].air = "Var"
             THEN IF is_module_fn_var(S.ir[index])
                  THEN process_var(S, index, hash_order)
                  ELSE S
             ELSE process_other(S, S.ir[index].scope, S.tbd),
             index - 1, hash_order)

RECURSIVE still_to_be_defined(_, _)
\* the closing loop of process_define_ir ("Still to be defined")
still_to_be_defined(fim, entries) ==
    IF entries = <<>> THEN fim
    ELSE still_to_be_defined(
             MapInsert(fim, Head(entries).k,
                       get_common_ancestor(Head(entries).v,
                                           MapGet(fim, Head(entries).k))),
             Tail(entries))

\* process_define_ir; panic: func_index_map.get(..).unwrap() on a missing key
process_define_ir(ir, fc, fim, id, nfa, hash_order) ==
    LET closing(S, panic) ==
          [ir |-> S.ir, fc |-> S.fc, id |-> S.id, nfa |-> S.nfa,
           panic |-> panic,
           fim |-> IF panic THEN S.fim ELSE still_to_be_defined(S.fim, S.tbd)]
        processed(S) ==
          closing(S, \E i \in 1..Len(S.tbd) : ~MapHas(S.fim, S.tbd[i].k))
    IN processed(process_loop([ir |-> ir, tbd |-> <<>>, fc |-> fc, fim |-> fim,
                               id |-> id, nfa |-> nfa], Len(ir), hash_order))


----------------------------------------------------------------------------
(* define_recurse_ir: the planner's descent into every function body *)

has_self_reference(function_ir, func) ==
    \E i \in 1..Len(function_ir) :
        is_module_fn_var(function_ir[i]) /\ key_of_var(function_ir[i]) = func

RECURSIVE unify_components(_, _)
unify_components(fc, inner) ==
    IF inner = <<>> THEN fc
    ELSE unify_components(
             IF MapHas(fc, Head(inner).k) THEN fc
             ELSE MapInsert(fc, Head(inner).k, Head(inner).v),
             Tail(inner))

RECURSIVE unify_index_map_inner(_, _)
\* unify_index_map as it would be if the scope found inside a function body
\* replaced the one already recorded instead of being joined with it
unify_index_map_inner(fim, inner) ==
    IF inner = <<>> THEN fim
    ELSE unify_index_map_inner(MapInsert(fim, Head(inner).k, Head(inner).v),
                               Tail(inner))

RECURSIVE unify_index_map(_, _)
unify_index_map(fim, inner) ==
    IF inner = <<>> THEN fim
    ELSE unify_index_map(
             IF MapHas(fim, Head(inner).k)
             THEN MapInsert(fim, Head(inner).k,
                      get_common_ancestor(MapGet(fim, Head(inner).k), Head(inner).v))
             ELSE MapInsert(fim, Head(inner).k, Head(inner).v),
             Tail(inner))

RECURSIVE define_recurse_ir(_, _, _, _, _, _, _)
RECURSIVE recurse_loop(_, _, _, _, _)

\* the loop of define_recurse_ir over the snapshot `entries` of func_index_map;
\* R carries fc, fim, id, nfa, panic; rfm is recursion_func_map and to_add
\* recursion_func_map_to_add
recurse_loop(R, entries, rfm, to_add, hash_order) ==
    IF entries = <<>> \/ R.panic THEN R
    ELSE
      LET func == Head(entries).k
          function_ir == MapGet(R.fc, func).ir
          self_ref == has_self_reference(function_ir, func)
          skip == self_ref /\ func \in rfm
          to_add1 == IF self_ref /\ func \notin rfm THEN to_add \cup {func}
                     ELSE to_add
      IN IF skip THEN recurse_loop(R, Tail(entries), to_add1, to_add1, hash_order)
         ELSE
           LET unified(inner) ==
                 [R EXCEPT
                    !.fc = unify_components(
                               MapInsert(R.fc, func,
                                   [MapGet(R.fc, func) EXCEPT !.ir = inner.ir]),
                               inner.fc),
                    !.fim = unify_index_map(R.fim, inner.fim),
                    !.id = inner.id, !.nfa = inner.nfa,
                    !.panic = inner.panic]
           IN recurse_loop(
                  unified(define_recurse_ir(function_ir, <<>>, <<>>, to_add1,
                                            R.id, R.nfa, hash_order)),
                  Tail(entries), to_add1, to_add1, hash_order)

define_recurse_ir(ir, fc, fim, recursion_func_map, id, nfa, hash_order) ==
    LET recursed(P, R) ==
          [ir |-> P.ir, fc |-> R.fc, fim |-> R.fim, id |-> R.id, nfa |-> R.nfa,
           panic |-> R.panic]
        processed(P) ==
          recursed(P, recurse_loop([fc |-> P.fc, fim |-> P.fim, id |-> P.id,
                                    nfa |-> P.nfa, panic |-> P.panic],
                                   P.fim, recursion_func_map,
                                   recursion_func_map, hash_order))
    IN processed(process_define_ir(ir, fc, fim, id, nfa, hash_order))

----------------------------------------------------------------------------
(* builder::handle_recursion_ir and builder::handle_func_deps_ir *)

RECURSIVE add_self_argument(_, _, _)
\* every reference of a recursive function to itself passes the function
\* to itself: the Var is doubled and the Call before it takes one more argument
add_self_argument(ir, index, key) ==
    IF index = 0 THEN ir
    ELSE IF is_module_fn_var(ir[index]) /\ key_of_var(ir[index]) = key
         /\ index > 1 /\ ir[index - 1].air = "Call"
    THEN add_self_argument(
             [InsertAt(ir, index, ir[index]) EXCEPT
                 ![index - 1] = AirCall(ir[index - 1].scope, ir[index - 1].count + 1)],
             index - 1, key)
    ELSE add_self_argument(ir, index - 1, key)

handle_recursion_ir(key, func_comp) ==
    IF func_comp.recursive
    THEN add_self_argument(func_comp.ir, Len(func_comp.ir), key)
    ELSE func_comp.ir

RECURSIVE handle_func_deps_loop(_, _, _, _, _, _)
\* D carries dep_ir, defined_functions and to_be_defined; deps is the stack
\* funt_comp.dependencies, popped from its end
handle_func_deps_loop(D, deps, no_args, fc, fim, func_scope) ==
    IF deps = <<>> THEN D
    ELSE
      LET dependency == Last(deps)
          rest == Front(deps)
      IN IF dependency \in D.defined \/ ~MapHas(fc, dependency)
         THEN handle_func_deps_loop(D, rest, no_args, fc, fim, func_scope)
         ELSE
           LET depend_comp == MapGet(fc, dependency)
               dep_scope == MapGet(fim, dependency)
               encloses == get_common_ancestor(dep_scope, func_scope) = func_scope
           IN IF encloses \/ no_args
              THEN LET temp_ir ==
                         IF depend_comp.args # <<>>
                         THEN <<AirDefineFunc(func_scope, dependency.function_name,
                                              dependency.module_name,
                                              depend_comp.args,
                                              depend_comp.recursive,
                                              dependency.variant_name)>>
                              \o handle_recursion_ir(dependency, depend_comp)
                         ELSE <<>>
                   IN handle_func_deps_loop(
                          [D EXCEPT !.dep_ir = temp_ir \o D.dep_ir,
                                    !.defined = IF encloses
                                                THEN D.defined \cup {dependency}
                                                ELSE D.defined],
                          rest \o depend_comp.dependencies,
                          no_args, fc, fim, func_scope)
              ELSE handle_func_deps_loop(
                       [D EXCEPT !.tbd = D.tbd \cup {dependency}],
                       rest, no_args, fc, fim, func_scope)

handle_func_deps_ir(funt_comp, fc, defined, fim, func_scope, tbd) ==
    handle_func_deps_loop([dep_ir |-> <<>>, defined |-> defined, tbd |-> tbd],
                          funt_comp.dependencies, funt_comp.args = <<>>,
                          fc, fim, func_scope)

----------------------------------------------------------------------------
(* define_ir *)

RECURSIVE dependency_order_keeping_place(_, _, _)
\* the ordering loop without the shift_remove: a key that is met again keeps
\* the place of its first insertion
dependency_order_keeping_place(func_keys, dependency_map, fc) ==
    IF func_keys = <<>> THEN dependency_map
    ELSE LET function == Last(func_keys)
         IN dependency_order_keeping_place(
                Front(func_keys) \o MapGet(fc, function).dependencies,
                IF \E i \in 1..Len(dependency_map) : dependency_map[i] = function
                THEN dependency_map
                ELSE Append(dependency_map, function),
                fc)

RECURSIVE dependency_order(_, _, _)
\* the loop that orders the functions: func_keys is a stack popped from its
\* end, dependency_map keeps each key at the place of its last insertion
dependency_order(func_keys, dependency_map, fc) ==
    IF func_keys = <<>> THEN dependency_map
    ELSE LET function == Last(func_keys)
         IN dependency_order(
                Front(func_keys) \o MapGet(fc, function).dependencies,
                Append(SelectSeq(dependency_map, LAMBDA k : k # function),
                       function),
                fc)

RECURSIVE define_loop(_, _, _, _)
\* the loop of define_ir over dependency_vec; G carries defined_functions,
\* zero_arg_functions, final_func_dep_ir, zero_arg_defined_functions and
\* to_be_defined
define_loop(G, dependency_vec, fc, fim) ==
    IF dependency_vec = <<>> THEN G
    ELSE
      LET func == Head(dependency_vec)
          funt_comp == MapGet(fc, func)
          func_scope == MapGet(fim, func)
      IN IF func \in G.defined THEN define_loop(G, Tail(dependency_vec), fc, fim)
         ELSE IF funt_comp.args # <<>>
         THEN LET with_deps(D) ==
                    [G EXCEPT !.defined = D.defined, !.tbd = D.tbd,
                              !.final = FnInsert(G.final, func, D.dep_ir)]
              IN define_loop(
                     with_deps(handle_func_deps_ir(funt_comp, fc, G.defined,
                                                   fim, func_scope, G.tbd)),
                     Tail(dependency_vec), fc, fim)
         ELSE LET with_deps(D) ==
                    [G EXCEPT !.zero = FnInsert(G.zero, func,
                                                D.dep_ir \o funt_comp.ir),
                              !.zero_defined = G.zero_defined \cup D.defined]
              IN define_loop(
                     with_deps(handle_func_deps_ir(funt_comp, fc, {}, fim,
                                                   func_scope, {})),
                     Tail(dependency_vec), fc, fim)

RECURSIVE insert_functions(_, _, _, _)
\* the inner loop of the insertion: every function of to_insert is placed in
\* front of the instruction at index
insert_functions(I, to_insert, index, fc) ==
    IF to_insert = <<>> \/ I.panic THEN I
    ELSE
      LET key == Head(to_insert).k
          scopes == Head(to_insert).v
          func_comp == MapGet(fc, key)
          I1 == [I EXCEPT !.fim = MapSwapRemove(I.fim, key),
                          !.defined = I.defined \cup {key}]
      IN IF key \notin DOMAIN I.final THEN [I1 EXCEPT !.panic = TRUE]
         ELSE IF func_comp.args # <<>>
         THEN LET full_func_ir ==
                      I.final[key]
                      \o <<AirDefineFunc(scopes, key.function_name,
                                         key.module_name, func_comp.args,
                                         func_comp.recursive, key.variant_name)>>
                      \o handle_recursion_ir(key, func_comp)
              IN insert_functions(
                     [I1 EXCEPT !.ir = SubSeq(I.ir, 1, index - 1) \o full_func_ir
                                       \o SubSeq(I.ir, index, Len(I.ir))],
                     Tail(to_insert), index, fc)
         ELSE insert_functions(
                  [I1 EXCEPT !.zero = FnInsert(I.zero, key,
                                               I.final[key] \o func_comp.ir)],
                  Tail(to_insert), index, fc)

RECURSIVE insertion_loop(_, _, _, _)
\* the reverse loop of define_ir over the snapshot of ir_stack
insertion_loop(I, snapshot, index, fc) ==
    IF index = 0 \/ I.panic THEN I
    ELSE
      LET scope == snapshot[index].scope
          to_insert ==
              SelectSeq(I.fim,
                        LAMBDA func :
                            /\ get_common_ancestor(func.v, scope) = scope
                            /\ func.k \notin I.defined
                            /\ func.k \notin DOMAIN I.zero)
      IN insertion_loop(insert_functions(I, to_insert, index, fc),
                        snapshot, index - 1, fc)

\* define_ir on ir_stack for a generator whose fields are defined, zero, id
\* and nfa; panic tells that an unwrap of the planner met None
define_ir(ir_stack_in, defined, zero, id, nfa, hash_order) ==
    LET inserted(R, I) ==
          [ir |-> I.ir, defined |-> I.defined, zero |-> I.zero, id |-> R.id,
           nfa |-> R.nfa, panic |-> I.panic, fim |-> R.fim, fc |-> R.fc]
        ordered(R, G) ==
          inserted(R, insertion_loop(
                          [ir |-> R.ir, fim |-> R.fim,
                           defined |-> G.defined \cup (G.zero_defined \ G.tbd),
                           zero |-> G.zero, final |-> G.final, panic |-> FALSE],
                          R.ir, Len(R.ir), R.fc))
        recursed(R) ==
          IF R.panic
          THEN [ir |-> R.ir, defined |-> defined, zero |-> zero, id |-> R.id,
                nfa |-> R.nfa, panic |-> TRUE, fim |-> R.fim, fc |-> R.fc]
          ELSE ordered(R, define_loop(
                              [defined |-> defined, zero |-> zero,
                               final |-> EmptyFn, zero_defined |-> {},
                               tbd |-> {}],
                              dependency_order(MapKeys(R.fc), <<>>, R.fc),
                              R.fc, R.fim))
    IN recursed(define_recurse_ir(ir_stack_in, <<>>, <<>>, {}, id, nfa,
                                  hash_order))

----------------------------------------------------------------------------
(* UPLC terms (uplc::ast::Term) and the term builders of builder.rs *)

TermVar(text) == <<"Var", text>>
TermConstant(c) == <<"Constant", c>>
TermApply(function, argument) == <<"Apply", function, argument>>
TermLambda(parameter_name, body) == <<"Lambda", parameter_name, body>>
TermDelay(t) == <<"Delay", t>>
TermForce(t) == <<"Force", t>>
TermBuiltin(func) == <<"Builtin", func>>
TermError == <<"Error">>

Integer(i) == <<"Integer", i>>
Unit == <<"Unit">>
Bool(b) == <<"Bool", b>>
ProtoList(items) == <<"ProtoList", items>>
ProtoPair(fst, snd) == <<"ProtoPair", fst, snd>>
Data(d) == <<"Data", d>>
ByteString(b) == <<"ByteString", b>>
String(text) == <<"String", text>>

is_constant(t) == t[1] = "Constant"
is_term_var(t) == t[1] = "Var"

Apply2(f, a, b) == TermApply(TermApply(f, a), b)

if_else(condition, then_term, else_term) ==
    TermApply(Apply2(TermForce(TermBuiltin("IfThenElse")), condition, then_term),
              else_term)

delayed_if_else(condition, then_term, else_term) ==
    TermForce(if_else(condition, TermDelay(then_term), TermDelay(else_term)))

\* builder::choose_list and delayed_choose_list
choose_list(list, then_term, else_term) ==
    TermApply(Apply2(TermForce(TermForce(TermBuiltin("ChooseList"))), list,
                     then_term),
              else_term)

delayed_choose_list(list, then_term, else_term) ==
    TermForce(choose_list(list, TermDelay(then_term), TermDelay(else_term)))

CONSTR_FIELDS_EXPOSER == "__constr_fields_exposer"
CONSTR_INDEX_EXPOSER == "__constr_index_exposer"
CONSTR_GET_FIELD == "__constr_get_field"

constr_index_exposer(t) ==
    TermApply(TermForce(TermForce(TermBuiltin("FstPair"))),
              TermApply(TermBuiltin("UnConstrData"), t))

\* builder::constr_fields_exposer: binds CONSTR_FIELDS_EXPOSER around term
constr_fields_exposer(term) ==
    TermApply(
        TermLambda(CONSTR_FIELDS_EXPOSER, term),
        TermLambda("__constr_var",
            TermApply(TermForce(TermForce(TermBuiltin("SndPair"))),
                      TermApply(TermBuiltin("UnConstrData"),
                                TermVar("__constr_var")))))

\* builder::constr_get_field: binds CONSTR_GET_FIELD around term; the bound
\* function walks the field list to the wanted index
constr_get_field(term) ==
    TermApply(TermLambda(CONSTR_GET_FIELD, term),
              TermLambda("__constr_list",
                  TermLambda("__arg_number",
                      Apply2(TermBuiltin("GetFieldAt"), TermVar("__constr_list"),
                             TermVar("__arg_number")))))

\* builder::final_wrapper: the validator's Bool becomes Unit or Error
final_wrapper(term) ==
    TermForce(if_else(term, TermDelay(TermConstant(Unit)), TermDelay(TermError)))

\* builder::convert_type_to_data
convert_type_to_data(term, tipo) ==
    CASE is_bytearray(tipo) -> TermApply(TermBuiltin("BData"), term)
      [] is_int(tipo) -> TermApply(TermBuiltin("IData"), term)
      [] is_list(tipo) -> TermApply(TermBuiltin("ListData"), term)
      [] is_tuple(tipo) -> TermApply(TermBuiltin("ListData"), term)
      [] is_bool(tipo) ->
            if_else(term,
                    TermConstant(Data(<<"Constr", 1, <<>>>>)),
                    TermConstant(Data(<<"Constr", 0, <<>>>>)))
      [] OTHER -> term

\* builder::convert_data_to_type
convert_data_to_type(term, tipo) ==
    CASE is_bytearray(tipo) -> TermApply(TermBuiltin("UnBData"), term)
      [] is_int(tipo) -> TermApply(TermBuiltin("UnIData"), term)
      [] is_list(tipo) -> TermApply(TermBuiltin("UnListData"), term)
      [] is_tuple(tipo) -> TermApply(TermBuiltin("UnListData"), term)
      [] is_bool(tipo) ->
            Apply2(TermBuiltin("EqualsInteger"), TermConstant(Integer(1)),
                   constr_index_exposer(term))
      [] OTHER -> term

RECURSIVE wrap_args(_, _)
wrap_args(term, arguments) ==
    IF arguments = <<>> THEN term
    ELSE LET arg == Last(arguments)
         IN wrap_args(
                TermLambda(arg.name,
                    TermApply(TermLambda(arg.name, term),
                              convert_data_to_type(TermVar(arg.name), arg.tipo))),
                Front(arguments))

\* builder::wrap_validator_args: a lambda for every argument, the last
\* argument innermost, each taken from Data into its own type
wrap_validator_args(term, arguments) == wrap_args(term, arguments)

----------------------------------------------------------------------------
(* The UPLC machine (Program::eval), as far as generated terms need it *)

\* the steps the budget ExBudget::default() of a compile-time evaluation allows
MaxEvalSteps == 40

Fail == <<"Fail">>
VCon(c) == <<"VCon", c>>
VLam(name, body, env) == <<"VLam", name, body, env>>
VDelay(body, env) == <<"VDelay", body, env>>
VBuiltin(func, args) == <<"VBuiltin", func, args>>

builtin_arity(func) ==
    CASE func \in {"AddInteger", "SubtractInteger", "MultiplyInteger",
                   "EqualsInteger", "LessThanInteger", "LessThanEqualsInteger",
                   "EqualsByteString", "EqualsString", "EqualsData", "MkCons",
                   "ConstrData",
                   "MkPairData", "Trace", "GetFieldAt"} -> 2
      [] func \in {"IfThenElse", "ChooseList"} -> 3
      [] OTHER -> 1

is_con(v, tag) == v[1] = "VCon" /\ v[2][1] = tag
is_data(v, tag) == is_con(v, "Data") /\ v[2][2][1] = tag

\* the result of a saturated builtin; Fail where the machine raises an error
builtin_call(func, a) ==
    CASE func = "AddInteger" ->
            IF is_con(a[1], "Integer") /\ is_con(a[2], "Integer")
            THEN VCon(Integer(a[1][2][2] + a[2][2][2])) ELSE Fail
      [] func = "SubtractInteger" ->
            IF is_con(a[1], "Integer") /\ is_con(a[2], "Integer")
            THEN VCon(Integer(a[1][2][2] - a[2][2][2])) ELSE Fail
      [] func = "MultiplyInteger" ->
            IF is_con(a[1], "Integer") /\ is_con(a[2], "Integer")
            THEN VCon(Integer(a[1][2][2] * a[2][2][2])) ELSE Fail
      [] func = "EqualsInteger" ->
            IF is_con(a[1], "Integer") /\ is_con(a[2], "Integer")
            THEN VCon(Bool(a[1][2][2] = a[2][2][2])) ELSE Fail
      [] func = "LessThanInteger" ->
            IF is_con(a[1], "Integer") /\ is_con(a[2], "Integer")
            THEN VCon(Bool(a[1][2][2] < a[2][2][2])) ELSE Fail
      [] func = "LessThanEqualsInteger" ->
            IF is_con(a[1], "Integer") /\ is_con(a[2], "Integer")
            THEN VCon(Bool(a[1][2][2] <= a[2][2][2])) ELSE Fail
      [] func = "EqualsByteString" ->
            IF is_con(a[1], "ByteString") /\ is_con(a[2], "ByteString")
            THEN VCon(Bool(a[1][2][2] = a[2][2][2])) ELSE Fail
      [] func = "EqualsString" ->
            IF is_con(a[1], "String") /\ is_con(a[2], "String")
            THEN VCon(Bool(a[1][2][2] = a[2][2][2])) ELSE Fail
      [] func = "EqualsData" ->
            IF is_con(a[1], "Data") /\ is_con(a[2], "Data")
            THEN VCon(Bool(a[1][2][2] = a[2][2][2])) ELSE Fail
      [] func = "MapData" ->
            IF is_con(a[1], "ProtoList")
               /\ \A i \in 1..Len(a[1][2][2]) : a[1][2][2][i][1] = "ProtoPair"
            THEN VCon(Data(<<"Map", [i \in 1..Len(a[1][2][2]) |->
                                        <<a[1][2][2][i][2][2],
                                          a[1][2][2][i][3][2]>>]>>))
            ELSE Fail
      [] func = "IfThenElse" ->
            IF is_con(a[1], "Bool")
            THEN (IF a[1][2][2] THEN a[2] ELSE a[3]) ELSE Fail
      [] func = "Trace" -> a[2]
      [] func = "IData" ->
            IF is_con(a[1], "Integer") THEN VCon(Data(<<"I", a[1][2][2]>>))
            ELSE Fail
      [] func = "UnIData" ->
            IF is_data(a[1], "I") THEN VCon(Integer(a[1][2][2][2])) ELSE Fail
      [] func = "BData" ->
            IF is_con(a[1], "ByteString") THEN VCon(Data(<<"B", a[1][2][2]>>))
            ELSE Fail
      [] func = "UnBData" ->
            IF is_data(a[1], "B") THEN VCon(<<"ByteString", a[1][2][2][2]>>)
            ELSE Fail
      [] func = "ListData" ->
            IF is_con(a[1], "ProtoList")
            THEN VCon(Data(<<"List", [i \in 1..Len(a[1][2][2]) |->
                                         a[1][2][2][i][2]]>>))
            ELSE Fail
      [] func = "UnListData" ->
            IF is_data(a[1], "List")
            THEN VCon(ProtoList([i \in 1..Len(a[1][2][2][2]) |->
                                    Data(a[1][2][2][2][i])]))
            ELSE Fail
      [] func = "MkCons" ->
            IF a[1][1] = "VCon" /\ is_con(a[2], "ProtoList")
            THEN VCon(ProtoList(<<a[1][2]>> \o a[2][2][2])) ELSE Fail
      [] func = "ChooseList" ->
            IF is_con(a[1], "ProtoList")
            THEN (IF a[1][2][2] = <<>> THEN a[2] ELSE a[3]) ELSE Fail
      [] func = "HeadList" ->
            IF is_con(a[1], "ProtoList") /\ a[1][2][2] # <<>>
            THEN VCon(Head(a[1][2][2])) ELSE Fail
      [] func = "TailList" ->
            IF is_con(a[1], "ProtoList") /\ a[1][2][2] # <<>>
            THEN VCon(ProtoList(Tail(a[1][2][2]))) ELSE Fail
      [] func = "GetFieldAt" ->
            IF is_con(a[1], "ProtoList") /\ is_con(a[2], "Integer")
               /\ a[2][2][2] >= 0 /\ a[2][2][2] < Len(a[1][2][2])
            THEN VCon(a[1][2][2][a[2][2][2] + 1]) ELSE Fail
      [] func = "ConstrData" ->
            IF is_con(a[1], "Integer") /\ is_con(a[2], "ProtoList")
               /\ \A i \in 1..Len(a[2][2][2]) : a[2][2][2][i][1] = "Data"
            THEN VCon(Data(<<"Constr", a[1][2][2],
                             [i \in 1..Len(a[2][2][2]) |-> a[2][2][2][i][2]]>>))
            ELSE Fail
      [] func = "UnConstrData" ->
            IF is_data(a[1], "Constr")
            THEN VCon(ProtoPair(Integer(a[1][2][2][2]),
                                ProtoList([i \in 1..Len(a[1][2][2][3]) |->
                                              Data(a[1][2][2][3][i])])))
            ELSE Fail
      [] func = "MkPairData" ->
            IF is_con(a[1], "Data") /\ is_con(a[2], "Data")
            THEN VCon(ProtoPair(a[1][2], a[2][2])) ELSE Fail
      [] func = "FstPair" ->
            IF is_con(a[1], "ProtoPair") THEN VCon(a[1][2][2]) ELSE Fail
      [] func = "SndPair" ->
            IF is_con(a[1], "ProtoPair") THEN VCon(a[1][2][3]) ELSE Fail
      [] OTHER -> Fail

RECURSIVE lookup(_, _)
\* the innermost binding of a name; Fail for a free variable
lookup(env, text) ==
    IF env = <<>> THEN Fail
    ELSE IF Last(env)[1] = text THEN Last(env)[2]
    ELSE lookup(Front(env), text)

RECURSIVE eval(_, _, _)
\* the value of term in env, or Fail; fuel bounds the depth of the
\* computation as the budget bounds the machine
eval(term, env, fuel) ==
    IF fuel = 0 THEN Fail
    ELSE
      CASE term[1] = "Var" -> lookup(env, term[2])
        [] term[1] = "Constant" -> VCon(term[2])
        [] term[1] = "Lambda" -> VLam(term[2], term[3], env)
        [] term[1] = "Delay" -> VDelay(term[2], env)
        [] term[1] = "Builtin" -> VBuiltin(term[2], <<>>)
        [] term[1] = "Error" -> Fail
        [] term[1] = "Force" ->
              LET v == eval(term[2], env, fuel - 1)
              IN CASE v[1] = "VDelay" -> eval(v[2], v[3], fuel - 1)
                   [] v[1] = "VBuiltin" -> v
                   [] OTHER -> Fail
        [] term[1] = "Apply" ->
              LET f == eval(term[2], env, fuel - 1)
                  a == IF f = Fail THEN Fail ELSE eval(term[3], env, fuel - 1)
              IN CASE a = Fail -> Fail
                   [] f[1] = "VLam" ->
                         eval(f[3], Append(f[4], <<f[2], a>>), fuel - 1)
                   [] f[1] = "VBuiltin" ->
                         IF Len(f[3]) + 1 = builtin_arity(f[2])
                         THEN builtin_call(f[2], Append(f[3], a))
                         ELSE VBuiltin(f[2], Append(f[3], a))
                   [] OTHER -> Fail

----------------------------------------------------------------------------
(* The term synthesizer: gen_uplc *)

\* the term an evaluated value is read back as
discharge(v) ==
    CASE v[1] = "VCon" -> TermConstant(v[2])
      [] v[1] = "VLam" -> TermLambda(v[2], v[3])
      [] v[1] = "VDelay" -> TermDelay(v[2])
      [] OTHER -> TermBuiltin(v[2])

\* builder::convert_constants_to_data
convert_constants_to_data(constants) ==
    [i \in 1..Len(constants) |->
        CASE constants[i][1] = "Integer" -> Data(<<"I", constants[i][2]>>)
          [] constants[i][1] = "ByteString" -> Data(<<"B", constants[i][2]>>)
          [] constants[i][1] = "ProtoList" ->
                Data(<<"List", [j \in 1..Len(constants[i][2]) |->
                                   constants[i][2][j][2]]>>)
          [] constants[i][1] = "Bool" ->
                Data(<<"Constr", IF constants[i][2] THEN 1 ELSE 0, <<>>>>)
          [] OTHER -> constants[i]]

RECURSIVE mk_cons_chain(_, _)
\* MkCons applied for every item from the last to the first
mk_cons_chain(items, tail) ==
    IF items = <<>> THEN tail
    ELSE mk_cons_chain(Front(items),
             Apply2(TermForce(TermBuiltin("MkCons")), Last(items), tail))

RECURSIVE lambdas(_, _)
\* params.iter().rev(): the first parameter becomes the outermost lambda
lambdas(params, body) ==
    IF params = <<>> THEN body
    ELSE lambdas(Front(params), TermLambda(Last(params), body))

RECURSIVE repeat_tail_list(_, _)
repeat_tail_list(term, repeat) ==
    IF repeat = 0 THEN term
    ELSE repeat_tail_list(TermApply(TermForce(TermBuiltin("TailList")), term),
                          repeat - 1)

\* the name gen_uplc gives the Var of a module function as it would be
\* without the module of the function
module_fn_var_name_unqualified(ir) ==
    ir.constructor.name \o ir.variant_name

\* the name the DefineFunc step binds
define_func_name(ir) ==
    IF ir.module_name = "" THEN ir.func_name \o ir.variant_name
    ELSE ir.module_name \o "_" \o ir.func_name \o ir.variant_name

\* the name gen_uplc gives the Var of a module function
module_fn_var_name(ir) ==
    LET func_name == ir.constructor.name
        module == ir.constructor.module
    IN IF (func_name = ir.name \/ ir.name = module \o "_" \o func_name)
          /\ module # ""
       THEN module \o "_" \o func_name \o ir.variant_name
       ELSE func_name \o ir.variant_name

\* the term of a Var whose constructor is a record constructor
record_constructor_term(constructor) ==
    LET data_type == data_type_of(constructor.tipo)
        constr_index == constr_index_of(data_type, constructor.name)
        args_type == arg_types(constructor.tipo)
        n == IF constructor.has_field_map
             THEN (IF Len(constructor.field_map) < Len(args_type)
                   THEN Len(constructor.field_map) ELSE Len(args_type))
             ELSE (IF constructor.arity < Len(args_type)
                   THEN constructor.arity ELSE Len(args_type))
        \* the items in the order of the list that MkCons builds
        items ==
            IF constructor.has_field_map
            THEN [i \in 1..n |->
                     convert_type_to_data(TermVar(constructor.field_map[i]),
                                          args_type[i])]
            ELSE [i \in 1..n |->
                     convert_type_to_data(
                         TermVar("__arg_" \o ToString(n - i)),
                         args_type[n - i + 1])]
        \* the parameters, the outermost lambda first
        params ==
            IF constructor.has_field_map
            THEN constructor.field_map
            ELSE [i \in 1..(IF constructor.arity < Len(args_type)
                            THEN constructor.arity ELSE Len(args_type)) |->
                     "__arg_" \o ToString(n - i)]
        fields == mk_cons_chain(items, TermConstant(ProtoList(<<>>)))
    IN lambdas(params,
               Apply2(TermBuiltin("ConstrData"),
                      TermConstant(Integer(constr_index)), fields))

RECURSIVE fields_expose_loop(_, _, _, _, _)
\* the loop of FieldsExpose from index + 1 = next down to index 0; pending
\* holds the fields not yet bound, the highest index first
fields_expose_loop(body, next, pending, id0, constr_name_lam) ==
    IF next = 0 THEN body
    ELSE
      LET index == next - 1
          tail_name(i) == "__tail_" \o ToString(i) \o "_" \o ToString(id0 + i)
          prev_tail == IF index = 0 THEN TermVar(constr_name_lam)
                       ELSE TermVar(tail_name(index - 1))
          bind_tail(b) ==
              TermApply(TermLambda(tail_name(index), b),
                        TermApply(TermForce(TermBuiltin("TailList")), prev_tail))
      IN IF pending # <<>> /\ Head(pending).index = index
         THEN fields_expose_loop(
                  TermApply(
                      TermLambda(Head(pending).name, bind_tail(body)),
                      convert_data_to_type(
                          TermApply(TermForce(TermBuiltin("HeadList")), prev_tail),
                          Head(pending).tipo)),
                  index, Tail(pending), id0, constr_name_lam)
         ELSE fields_expose_loop(bind_tail(body), index, pending, id0,
                                 constr_name_lam)

\* the term of FieldsExpose; the ids id0 .. id0 + highest.index are taken
fields_expose_term(indices, constr_var, body, id0) ==
    LET rev == Rev(indices)
        highest == Head(rev)
        constr_name_lam == "__constr_fields_" \o ToString(id0 + highest.index)
        last_prev_tail ==
            IF highest.index = 0 THEN TermVar(constr_name_lam)
            ELSE TermVar("__tail_" \o ToString(highest.index - 1) \o "_"
                         \o ToString(id0 + highest.index - 1))
        body1 ==
            TermApply(
                TermLambda(highest.name, body),
                convert_data_to_type(
                    TermApply(TermForce(TermBuiltin("HeadList")), last_prev_tail),
                    highest.tipo))
    IN TermApply(
           TermLambda(constr_name_lam,
                      fields_expose_loop(body1, highest.index, Tail(rev), id0,
                                         constr_name_lam)),
           TermApply(TermVar(CONSTR_FIELDS_EXPOSER), constr_var))

\* the number of arg_stack.pop().unwrap() calls the arm of gen_uplc for ir makes
operands(ir) ==
    CASE ir.air \in {"Int", "Var", "Discard", "Todo", "ErrorTerm"} -> 0
      [] ir.air \in {"Fn", "Finally", "RecordAccess", "UnOp", "TupleIndex",
                     "Trace", "ListExpose"} -> 1
      [] ir.air \in {"BinOp", "Assignment", "DefineFunc", "Lam", "When",
                     "FieldsExpose", "ListAccessor", "TupleAccessor"} -> 2
      [] ir.air \in {"Clause", "If", "ListClause"} -> 3
      [] ir.air = "Call" -> IF ir.count >= 1 THEN ir.count + 1 ELSE 1
      [] ir.air = "List" -> ir.count + (IF ir.tail THEN 1 ELSE 0)
      [] ir.air = "Tuple" -> ir.count
      [] ir.air = "TupleClause" -> IF ir.complex_clause THEN 2 ELSE 1

SetToSeq(set) ==
    CHOOSE q \in [1..Cardinality(set) -> set] :
        /\ \A i, j \in 1..Cardinality(set) : i # j => q[i] # q[j]
        /\ \A i, j \in 1..Cardinality(set) : i < j => q[i][1] <= q[j][1]

RECURSIVE tuple_clause_binds(_, _, _, _)
\* the lambdas of TupleClause for the (index, name) pairs of indices
tuple_clause_binds(term, pairs, ir, tuple_types) ==
    IF pairs = <<>> THEN term
    ELSE
      LET index == Head(pairs)[1]
          name == Head(pairs)[2]
          subject == TermVar(ir.subject_name)
          access ==
              IF Len(tuple_types) = 2
              THEN TermApply(
                       TermForce(TermForce(TermBuiltin(
                           IF index = 0 THEN "FstPair" ELSE "SndPair"))),
                       subject)
              ELSE TermApply(TermForce(TermBuiltin("HeadList")),
                             repeat_tail_list(subject, index))
      IN tuple_clause_binds(
             TermApply(TermLambda(name, term),
                       convert_data_to_type(access, tuple_types[index + 1])),
             Tail(pairs), ir, tuple_types)

\* the comparison a Clause makes with its subject
clause_checker(ir) ==
    CASE is_bytearray(ir.tipo) ->
            TermApply(TermBuiltin("EqualsByteString"), TermVar(ir.subject_name))
      [] is_string(ir.tipo) ->
            TermApply(TermBuiltin("EqualsString"), TermVar(ir.subject_name))
      [] OTHER ->
            TermApply(TermBuiltin("EqualsInteger"), TermVar(ir.subject_name))

RECURSIVE list_expose_heads(_, _, _)
\* the lambdas of ListExpose for the (tail_var, head_name) pairs, the last
\* pair innermost
list_expose_heads(term, pairs, tipo) ==
    IF pairs = <<>> THEN term
    ELSE LET head ==
               TermApply(TermForce(TermBuiltin("HeadList")),
                         TermVar(Last(pairs)[1]))
             head_list == IF is_map(tipo) THEN head
                          ELSE convert_data_to_type(head, get_inner_types(tipo)[1])
         IN list_expose_heads(
                TermApply(TermLambda(Last(pairs)[2], term), head_list),
                Front(pairs), tipo)

\* the term of ListExpose
list_expose_term(ir, term) ==
    list_expose_heads(
        IF ir.tail # <<>>
        THEN TermApply(TermLambda(ir.tail[1][2], term),
                       TermApply(TermForce(TermBuiltin("TailList")),
                                 TermVar(ir.tail[1][1])))
        ELSE term,
        ir.tail_head_names, ir.tipo)

\* the term of ListClause; p[1] is the discarded term
list_clause_term(ir, p) ==
    LET body == IF ir.inverse THEN p[3] ELSE p[2]
        term == IF ir.inverse THEN p[2] ELSE p[3]
        arg == IF ir.next_tail_name # <<>>
               THEN TermApply(TermLambda(ir.next_tail_name[1], term),
                              TermApply(TermForce(TermBuiltin("TailList")),
                                        TermVar(ir.tail_name)))
               ELSE term
    IN IF ir.complex_clause
       THEN TermApply(
                TermLambda("__other_clauses_delayed",
                    TermForce(choose_list(TermVar(ir.tail_name),
                                          TermDelay(body),
                                          TermVar("__other_clauses_delayed")))),
                TermDelay(arg))
       ELSE delayed_choose_list(TermVar(ir.tail_name), body, arg)

\* the term of Call as it would be with the arguments applied last first
call_term_last_first(ir, p) ==
    LET fold[i \in 0..ir.count] ==
            IF i = 0 THEN p[1]
            ELSE TermApply(fold[i - 1], p[ir.count + 2 - i])
    IN fold[ir.count]

\* the term of Call with count >= 1: the callee p[1] applied to the
\* arguments in the order they are popped
call_term(ir, p) ==
    LET fold[i \in 0..ir.count] ==
            IF i = 0 THEN p[1] ELSE TermApply(fold[i - 1], p[i + 1])
    IN fold[ir.count]

\* a pair as the one entry of a map: MkCons of the pair onto the empty list
single_entry_map(pair) ==
    Apply2(TermForce(TermBuiltin("MkCons")), pair, TermConstant(ProtoList(<<>>)))

\* the term of BinOp::Eq
eq_term(tipo, default_builtin, left, right) ==
    IF is_bool(tipo)
    THEN delayed_if_else(left, right,
             if_else(right, TermConstant(Bool(FALSE)),
                     TermConstant(Bool(TRUE))))
    ELSE IF is_map(tipo)
    THEN Apply2(TermBuiltin(default_builtin),
                TermApply(TermBuiltin("MapData"), left),
                TermApply(TermBuiltin("MapData"), right))
    ELSE IF is_pair(tipo)
    THEN Apply2(TermBuiltin(default_builtin),
                TermApply(TermBuiltin("MapData"), single_entry_map(left)),
                TermApply(TermBuiltin("MapData"), single_entry_map(right)))
    ELSE IF is_list(tipo)
    THEN Apply2(TermBuiltin(default_builtin),
                TermApply(TermBuiltin("ListData"), left),
                TermApply(TermBuiltin("ListData"), right))
    ELSE IF is_void(tipo) THEN TermConstant(Bool(TRUE))
    ELSE Apply2(TermBuiltin(default_builtin), left, right)

\* the term of BinOp::NotEq
not_eq_term(tipo, default_builtin, left, right) ==
    IF is_bool(tipo)
    THEN delayed_if_else(left,
             if_else(right, TermConstant(Bool(FALSE)),
                     TermConstant(Bool(TRUE))),
             right)
    ELSE IF is_map(tipo)
    THEN if_else(Apply2(TermBuiltin(default_builtin),
                        TermApply(TermBuiltin("MapData"), left),
                        TermApply(TermBuiltin("MapData"), right)),
                 TermConstant(Bool(FALSE)), TermConstant(Bool(TRUE)))
    ELSE IF is_pair(tipo)
    THEN if_else(Apply2(TermBuiltin(default_builtin),
                        TermApply(TermBuiltin("MapData"),
                                  single_entry_map(left)),
                        single_entry_map(right)),
                 TermConstant(Bool(FALSE)), TermConstant(Bool(TRUE)))
    ELSE IF is_list(tipo)
    THEN if_else(Apply2(TermBuiltin(default_builtin),
                        TermApply(TermBuiltin("ListData"), left),
                        TermApply(TermBuiltin(default_builtin),
                                  TermApply(TermBuiltin("ListData"), right))),
                 TermConstant(Bool(FALSE)), TermConstant(Bool(TRUE)))
    ELSE IF is_void(tipo) THEN TermConstant(Bool(FALSE))
    ELSE if_else(Apply2(TermBuiltin(default_builtin), left, right),
                 TermConstant(Bool(FALSE)), TermConstant(Bool(TRUE)))

bin_op_term(ir, left, right) ==
    LET default_builtin ==
            IF is_int(ir.tipo) THEN "EqualsInteger"
            ELSE IF is_string(ir.tipo) THEN "EqualsString"
            ELSE IF is_bytearray(ir.tipo) THEN "EqualsByteString"
            ELSE "EqualsData"
    IN CASE ir.name = "And" ->
              delayed_if_else(left, right, TermConstant(Bool(FALSE)))
         [] ir.name = "Or" ->
              delayed_if_else(left, TermConstant(Bool(TRUE)), right)
         [] ir.name = "Eq" -> eq_term(ir.tipo, default_builtin, left, right)
         [] ir.name = "NotEq" ->
              not_eq_term(ir.tipo, default_builtin, left, right)
         [] ir.name = "LtInt" -> Apply2(TermBuiltin("LessThanInteger"), left, right)
         [] ir.name = "LtEqInt" ->
              Apply2(TermBuiltin("LessThanEqualsInteger"), left, right)
         [] ir.name = "GtEqInt" ->
              Apply2(TermBuiltin("LessThanEqualsInteger"), right, left)
         [] ir.name = "GtInt" -> Apply2(TermBuiltin("LessThanInteger"), right, left)
         [] ir.name = "AddInt" -> Apply2(TermBuiltin("AddInteger"), left, right)
         [] ir.name = "SubInt" ->
              Apply2(TermBuiltin("SubtractInteger"), left, right)
         [] ir.name = "MultInt" ->
              Apply2(TermBuiltin("MultiplyInteger"), left, right)

\* the MkCons chain of a list: every element onto the tail, or onto the
\* empty list when there is no tail
list_chain(ir, p) ==
    mk_cons_chain(
        [i \in 1..ir.count |->
            IF is_map(ir.tipo) THEN p[i]
            ELSE convert_type_to_data(p[i], get_inner_types(ir.tipo)[1])],
        IF ir.tail THEN p[ir.count + 1] ELSE TermConstant(ProtoList(<<>>)))

\* the List arm as it would be without the branch for constant elements
list_term_without_constants(ir, p) == list_chain(ir, p)

\* the term of Air::List: p holds the elements and then the tail, if any
list_term(ir, p) ==
    IF (\A i \in 1..ir.count : is_constant(p[i])) /\ ~ir.tail
    THEN IF is_map(ir.tipo)
         THEN TermConstant(ProtoList(
                  [i \in 1..ir.count |->
                      ProtoPair(convert_constants_to_data(<<p[i][2][2]>>)[1],
                                convert_constants_to_data(<<p[i][2][3]>>)[1])]))
         ELSE TermConstant(ProtoList(
                  convert_constants_to_data([i \in 1..ir.count |-> p[i][2]])))
    ELSE list_chain(ir, p)

\* the term of Air::Tuple
tuple_term(ir, p) ==
    IF \A i \in 1..Len(p) : is_constant(p[i])
    THEN IF ir.count = 2
         THEN TermConstant(ProtoPair(
                  convert_constants_to_data(<<p[1][2]>>)[1],
                  convert_constants_to_data(<<p[2][2]>>)[1]))
         ELSE TermConstant(ProtoList(
                  convert_constants_to_data([i \in 1..Len(p) |-> p[i][2]])))
    ELSE IF ir.count = 2
    THEN Apply2(TermBuiltin("MkPairData"),
                convert_type_to_data(p[1], get_inner_types(ir.tipo)[1]),
                convert_type_to_data(p[2], get_inner_types(ir.tipo)[2]))
    ELSE mk_cons_chain(
             [i \in 1..Len(p) |->
                 convert_type_to_data(p[i], get_inner_types(ir.tipo)[i])],
             TermConstant(ProtoList(<<>>)))

\* the term gen_uplc pushes for an instruction other than Call{count: 0} and
\* Finally; p is the sequence of the popped terms, the first popped first, and
\* id the next id of the generator
pushed_term(ir, p, id) ==
    CASE ir.air = "Int" -> TermConstant(Integer(ir.value))
      [] ir.air = "Var" ->
            (CASE ir.constructor.variant = "LocalVariable" -> TermVar(ir.name)
               [] ir.constructor.variant = "ModuleFn" ->
                     TermVar(module_fn_var_name(ir))
               [] ir.constructor.variant = "Record" ->
                     IF is_bool(ir.constructor.tipo)
                     THEN TermConstant(Bool(ir.constructor.name = "True"))
                     ELSE record_constructor_term(ir.constructor))
      [] ir.air = "Discard" -> TermConstant(Unit)
      [] ir.air = "List" -> list_term(ir, p)
      [] ir.air = "Fn" -> lambdas(ir.params, p[1])
      [] ir.air = "Call" -> call_term(ir, p)
      [] ir.air = "BinOp" -> bin_op_term(ir, p[1], p[2])
      [] ir.air = "Assignment" -> TermApply(TermLambda(ir.name, p[2]), p[1])
      [] ir.air = "DefineFunc" ->
            LET func_name == define_func_name(ir)
                func_body == lambdas(ir.params, p[1])
                term == p[2]
            IN IF ~ir.recursive
               THEN TermApply(TermLambda(func_name, term), func_body)
               ELSE TermApply(
                        TermLambda(func_name,
                            TermApply(TermLambda(func_name, term),
                                      TermApply(TermVar(func_name),
                                                TermVar(func_name)))),
                        TermLambda(func_name, func_body))
      [] ir.air = "Lam" -> TermApply(TermLambda(ir.name, p[2]), p[1])
      [] ir.air = "When" ->
            TermApply(TermLambda(ir.subject_name, p[2]),
                      IF is_int(ir.tipo) \/ is_bytearray(ir.tipo)
                         \/ is_list(ir.tipo) \/ is_tuple(ir.tipo)
                      THEN p[1] ELSE constr_index_exposer(p[1]))
      [] ir.air = "Clause" ->
            IF ir.complex_clause
            THEN TermForce(TermApply(
                     TermLambda("__other_clauses_delayed",
                         TermForce(if_else(
                             TermApply(clause_checker(ir), p[1]),
                             TermDelay(p[2]),
                             TermVar("__other_clauses_delayed")))),
                     TermDelay(p[3])))
            ELSE delayed_if_else(TermApply(clause_checker(ir), p[1]), p[2], p[3])
      [] ir.air = "If" -> delayed_if_else(p[1], p[2], p[3])
      [] ir.air = "ListClause" -> list_clause_term(ir, p)
      [] ir.air = "ListExpose" -> list_expose_term(ir, p[1])
      [] ir.air = "RecordAccess" ->
            convert_data_to_type(
                Apply2(TermVar(CONSTR_GET_FIELD),
                       TermApply(TermVar(CONSTR_FIELDS_EXPOSER), p[1]),
                       TermConstant(Integer(ir.index))),
                ir.tipo)
      [] ir.air = "FieldsExpose" -> fields_expose_term(ir.indices, p[1], p[2], id)
      [] ir.air = "Tuple" -> tuple_term(ir, p)
      [] ir.air = "Todo" ->
            TermForce(Apply2(TermForce(TermBuiltin("Trace")),
                             TermConstant(<<"String", "aiken::todo">>),
                             TermDelay(TermError)))
      [] ir.air = "UnOp" ->
            IF ir.op = "Not"
            THEN if_else(p[1], TermConstant(Bool(FALSE)), TermConstant(Bool(TRUE)))
            ELSE Apply2(TermBuiltin("SubtractInteger"), TermConstant(Integer(0)),
                        p[1])
      [] ir.air = "TupleIndex" ->
            IF is_pair(ir.tipo)
            THEN convert_data_to_type(
                     TermApply(TermForce(TermForce(TermBuiltin(
                                   IF ir.index = 0 THEN "FstPair" ELSE "SndPair"))),
                               p[1]),
                     get_inner_types(ir.tipo)[IF ir.index = 0 THEN 1 ELSE 2])
            ELSE Apply2(TermVar(CONSTR_GET_FIELD), p[1],
                        TermConstant(Integer(ir.index)))
      [] ir.air = "TupleAccessor" ->
            LET inner_types == get_inner_types(ir.tipo)
                tuple_name == "__tuple_" \o ToString(id)
                access(i) ==
                    IF Len(ir.names) = 2
                    THEN TermApply(TermForce(TermForce(TermBuiltin(
                                       IF i = 1 THEN "FstPair" ELSE "SndPair"))),
                                   TermVar(tuple_name))
                    ELSE TermApply(TermForce(TermBuiltin("HeadList")),
                                   repeat_tail_list(TermVar(tuple_name), i - 1))
                bind[i \in 0..Len(ir.names)] ==
                    IF i = 0 THEN p[2]
                    ELSE TermApply(
                             TermLambda(ir.names[Len(ir.names) + 1 - i],
                                        bind[i - 1]),
                             convert_data_to_type(
                                 access(Len(ir.names) + 1 - i),
                                 inner_types[Len(ir.names) + 1 - i]))
            IN TermApply(TermLambda(tuple_name, bind[Len(ir.names)]), p[1])
      [] ir.air = "Trace" ->
            Apply2(TermForce(TermBuiltin("Trace")),
                   TermConstant(<<"String", "aiken::trace">>), p[1])
      [] ir.air = "ErrorTerm" -> TermError
      [] ir.air = "TupleClause" ->
            LET bound == tuple_clause_binds(p[1], SetToSeq(ir.indices), ir,
                                            get_inner_types(ir.tipo))
            IN IF ir.complex_clause
               THEN TermApply(TermLambda("__other_clauses_delayed", bound),
                              TermDelay(p[2]))
               ELSE bound

\* the ids the arm of gen_uplc for ir takes from the generator
ids_taken(ir) ==
    CASE ir.air = "FieldsExpose" -> ir.indices[Len(ir.indices)].index + 1
      [] ir.air = "TupleAccessor" ->
            1 + (IF Len(ir.names) = 2 THEN 0 ELSE Len(ir.names))
      [] OTHER -> 0

\* the arms of gen_uplc that set needs_field_access
sets_field_access(ir) ==
    \/ ir.air = "FieldsExpose"
    \/ ir.air = "TupleIndex" /\ ~is_pair(ir.tipo)

\* the name under which Call{count: 0} looks a zero-argument function up
zero_arg_matches(key, text) ==
    \/ text = key.function_name \o key.variant_name
    \/ text = key.module_name \o "_" \o key.function_name \o key.variant_name

\* an arm of gen_uplc as it would be without its closing arg_stack.push(term)
push_arm_without_push(ir, S, rest, p) ==
    [S EXCEPT !.stack = rest,
              !.id = S.id + ids_taken(ir),
              !.nfa = S.nfa \/ sets_field_access(ir)]

\* the arms of gen_uplc that end in arg_stack.push(term): p are the popped
\* operands, rest is what the pops leave of arg_stack
push_arm(ir, S, rest, p) ==
    [S EXCEPT !.stack = Append(rest, pushed_term(ir, p, S.id)),
              !.id = S.id + ids_taken(ir),
              !.nfa = S.nfa \/ sets_field_access(ir)]

RECURSIVE gen_uplc(_, _, _, _)
RECURSIVE uplc_code_gen(_, _, _, _, _)
RECURSIVE zero_arg_calls(_, _, _, _, _)

\* Call{count: 0} on the popped Var text: every entry of zero_arg_functions
\* with that name is synthesized, evaluated and pushed
zero_arg_calls(S, keys, text, zero, hash_order) ==
    IF keys = <<>> \/ S.panic THEN S
    ELSE IF ~zero_arg_matches(Head(keys), text)
    THEN zero_arg_calls(S, Tail(keys), text, zero, hash_order)
    ELSE
      LET inner == uplc_code_gen(zero[Head(keys)], S.id, S.nfa, zero, hash_order)
          term == constr_fields_exposer(constr_get_field(inner.term))
          value == IF inner.panic THEN Fail ELSE eval(term, <<>>, MaxEvalSteps)
      IN IF inner.panic \/ value = Fail
         THEN [S EXCEPT !.panic = TRUE, !.id = inner.id, !.nfa = inner.nfa]
         ELSE zero_arg_calls(
                  [S EXCEPT !.stack = Append(S.stack, discharge(value)),
                            !.id = inner.id, !.nfa = inner.nfa],
                  Tail(keys), text, zero, hash_order)

\* gen_uplc: S carries arg_stack (its top last), the id generator,
\* needs_field_access and panic (an unwrap of None, or a failed evaluation)
gen_uplc(ir, S, zero, hash_order) ==
    LET n == Len(S.stack)
        k == operands(ir)
        p == [i \in 1..k |-> S.stack[n + 1 - i]]
        rest == SubSeq(S.stack, 1, n - k)
    IN IF n < k THEN [S EXCEPT !.panic = TRUE, !.stack = <<>>]
       ELSE IF ir.air = "Finally" THEN [S EXCEPT !.stack = rest]
       ELSE IF ir.air = "Call" /\ ir.count = 0
       THEN IF is_term_var(p[1])
            THEN zero_arg_calls([S EXCEPT !.stack = rest],
                                keys_in_hash_order(DOMAIN zero, hash_order),
                                p[1][2], zero, hash_order)
            ELSE [S EXCEPT !.stack = rest]
       ELSE push_arm(ir, S, rest, p)

\* uplc_code_gen: the instructions are taken from the end of ir_stack; the
\* result is arg_stack[0], and an empty arg_stack panics
uplc_code_gen(ir_stack_in, id, nfa, zero, hash_order) ==
    LET run[i \in 0..Len(ir_stack_in)] ==
            IF i = 0
            THEN [stack |-> <<>>, id |-> id, nfa |-> nfa, panic |-> FALSE]
            ELSE IF run[i - 1].panic THEN run[i - 1]
            ELSE gen_uplc(ir_stack_in[Len(ir_stack_in) + 1 - i], run[i - 1],
                          zero, hash_order)
        S == run[Len(ir_stack_in)]
    IN IF S.panic \/ S.stack = <<>>
       THEN [term |-> TermError, id |-> S.id, nfa |-> S.nfa, panic |-> TRUE,
             stack |-> S.stack]
       ELSE [term |-> S.stack[1], id |-> S.id, nfa |-> S.nfa, panic |-> FALSE,
             stack |-> S.stack]

----------------------------------------------------------------------------
(* The inputs of generate(): validator or test bodies, arguments, hash order *)

BoxCons == EVar(RecordConstructor("Box", <<>>, FALSE, 2,
                                  TFn(<<TInt, TInt>>, TBox)), "Box")
ACons == EVar(RecordConstructor("A", <<>>, FALSE, 0, TBool2), "A")
ABox == ECall(BoxCons, <<EInt(1), EInt(2)>>)
TPair == TTuple(<<TInt, TInt>>)
TTriple == TTuple(<<TInt, TInt, TInt>>)
CallF(n) == CallFn("f", TFnInt, <<EInt(n)>>)
CallZ == CallFn("z", TFn(<<>>, TInt), <<>>)

PointPattern(first, second) ==
    PConstructor("Point", <<CallArg("px", first), CallArg("py", second)>>,
                 TRUE, <<"px", "py">>, TFn(<<TInt, TInt>>, TPoint))
BoxPattern(first, second) ==
    PConstructor("Box", <<CallArg("", first), CallArg("", second)>>,
                 FALSE, <<>>, TFn(<<TInt, TInt>>, TBox))
NullaryPattern(name, tipo) == PConstructor(name, <<>>, FALSE, <<>>, tipo)
SomeCons == EVar(RecordConstructor("Some", <<>>, FALSE, 1, TFn(<<TInt>>, TOpt)),
                 "Some")
SomePattern(value) ==
    PConstructor("Some", <<CallArg("", value)>>, FALSE, <<>>,
                 TFn(<<TInt>>, TOpt))

\* a list of n integer constants
ListOf(n) ==
    EList(SubSeq(<<EInt(7), EInt(3), EInt(1)>>, 1, n), <<>>, TList(TInt))

\* [] -> 100, [a] -> a, [a, b] -> a - b, _ -> 200
ConsecutiveClauses ==
    <<ClauseOf(PList(<<>>, <<>>), EInt(100)),
      ClauseOf(PList(<<PVar("a")>>, <<>>), Local("a", TInt)),
      ClauseOf(PList(<<PVar("a"), PVar("b")>>, <<>>),
               EBinOp("SubInt", Local("a", TInt), Local("b", TInt), TInt)),
      ClauseOf(PDiscard, EInt(200))>>

\* the same clauses without the one for [a]
GappedClauses ==
    <<ConsecutiveClauses[1], ConsecutiveClauses[3], ConsecutiveClauses[4]>>

\* the same clauses in another source order
UnsortedClauses ==
    <<ConsecutiveClauses[3], ConsecutiveClauses[1], ConsecutiveClauses[2],
      ConsecutiveClauses[4]>>

WhenList(clauses, n) == EWhen(ListOf(n), TList(TInt), clauses)

Bodies ==
    [ int |-> EInt(7),
      call |-> CallF(1),
      two_calls |-> EBinOp("AddInt", CallF(1), CallF(2), TInt),
      let_call |-> ESequence(<<EAssignment(PVar("a"), CallF(1), TInt),
                               Local("a", TInt)>>),
      if_call |-> EIf(<<Branch(EBinOp("Eq", CallF(1), EInt(1), TInt), EInt(1))>>,
                      EInt(2)),
      if_then_call |-> EIf(<<Branch(EBinOp("Eq", EInt(1), EInt(1), TInt),
                                    CallF(1))>>, CallF(2)),
      when_call |-> EWhen(CallF(1), TInt,
                          <<ClauseOf(PVar("n"), Local("n", TInt))>>),
      when_var_call |-> EWhen(CallF(1), TInt,
                              <<ClauseOf(PVar("n"), Local("n", TInt)),
                                ClauseOf(PDiscard, EInt(0))>>),
      when_list_0 |-> WhenList(ConsecutiveClauses, 0),
      when_list_1 |-> WhenList(ConsecutiveClauses, 1),
      when_list_2 |-> WhenList(ConsecutiveClauses, 2),
      when_list_3 |-> WhenList(ConsecutiveClauses, 3),
      when_list_unsorted_2 |-> WhenList(UnsortedClauses, 2),
      when_list_gap_0 |-> WhenList(GappedClauses, 0),
      when_list_gap_1 |-> WhenList(GappedClauses, 1),
      when_list_gap_2 |-> WhenList(GappedClauses, 2),
      when_list_gap_3 |-> WhenList(GappedClauses, 3),
      when_int |-> EWhen(EInt(1), TInt,
                         <<ClauseOf(PInt(1), EInt(10)),
                           ClauseOf(PDiscard, EInt(20))>>),
      when_int_call |-> EWhen(EInt(1), TInt,
                              <<ClauseOf(PInt(1), CallF(10)),
                                ClauseOf(PDiscard, CallF(20))>>),
      when_tuple |-> EWhen(ETuple(<<EInt(1), EInt(2)>>, TPair), TPair,
                           <<ClauseOf(PTuple(<<PVar("a"), PVar("b")>>),
                                      Local("a", TInt))>>),
      when_record |-> EWhen(APoint, TPoint,
                            <<ClauseOf(PointPattern(PVar("px"), PVar("py")),
                                       Local("px", TInt))>>),
      when_some_call |->
          EWhen(ECall(SomeCons, <<CallF(1)>>), TOpt,
                <<ClauseOf(SomePattern(PVar("v")), Local("v", TInt)),
                  ClauseOf(NullaryPattern("None", TOpt), EInt(0))>>),
      when_some |->
          EWhen(ECall(SomeCons, <<EInt(1)>>), TOpt,
                <<ClauseOf(SomePattern(PVar("v")), Local("v", TInt)),
                  ClauseOf(PDiscard, EInt(0))>>),
      when_nullary |-> EWhen(ACons, TBool2,
                             <<ClauseOf(NullaryPattern("A", TBool2), EInt(1)),
                               ClauseOf(PDiscard, EInt(2))>>),
      let_discard |-> ESequence(<<EAssignment(PDiscard, EInt(1), TInt),
                                  EInt(2)>>),
      let_record |-> ESequence(<<EAssignment(PointPattern(PVar("px"), PVar("py")),
                                             APoint, TPoint),
                                 Local("py", TInt)>>),
      let_box |-> ESequence(<<EAssignment(BoxPattern(PDiscard, PVar("b")),
                                          ABox, TBox),
                              Local("b", TInt)>>),
      let_tuple |-> ESequence(<<EAssignment(PTuple(<<PVar("a"), PVar("b")>>),
                                            ETuple(<<EInt(1), EInt(2)>>, TPair),
                                            TPair),
                                Local("b", TInt)>>),
      zero_arg |-> CallZ,
      zero_arg_record |-> CallFn("zp", TFn(<<>>, TInt), <<>>),
      zero_arg_and_call |-> EIf(<<Branch(EBinOp("Eq", CallZ, EInt(1), TInt),
                                         CallF(1))>>, EInt(2)),
      zero_arg_error |-> CallFn("ze", TFn(<<>>, TInt), <<>>),
      zero_arg_loop |-> CallFn("zr", TFn(<<>>, TInt), <<>>),
      zero_arg_two_modules |->
          EBinOp("AddInt", CallZ, CallIn("lib", "z", TFn(<<>>, TInt), <<>>),
                 TInt),
      lambda_call |-> ECall(EFn(<<>>, EInt(1)), <<>>),
      fn_call |-> ECall(EFn(<<"q">>, Local("q", TInt)), <<EInt(3)>>),
      deps |-> CallFn("k", TFnInt, <<EInt(1)>>),
      call_and_dep |-> EBinOp("AddInt", CallF(1),
                              CallFn("g", TFnInt, <<EInt(2)>>), TInt),
      recursive |-> EIf(<<Branch(EBinOp("Eq", EInt(1), EInt(1), TInt), EInt(1))>>,
                        CallFn("r", TFnInt, <<EInt(1)>>)),
      generic |-> CallFn("id", TFnInt, <<EInt(1)>>),
      generic_twice |-> EBinOp("AddInt", CallFn("id", TFnInt, <<EInt(1)>>),
                               CallFn("id", TFnInt, <<EInt(2)>>), TInt),
      field_in_function |-> CallFn("h", TFn(<<TPoint>>, TInt), <<APoint>>),
      record_access |-> ERecordAccess(APoint, 1, TInt),
      pair_index |-> ETupleIndex(ETuple(<<EInt(1), EInt(2)>>, TPair), TPair, 1),
      triple_index |-> ETupleIndex(ETuple(<<EInt(1), EInt(2), EInt(3)>>, TTriple),
                                   TTriple, 2),
      list |-> EList(<<EInt(1), Local("x", TInt)>>, <<>>, TList(TInt)),
      todo |-> ETodo,
      trace |-> ETrace(EUnOp("Negate", EInt(1))),
      fn_value |-> FnRef("f", TFnInt),
      call_lib |-> CallIn("lib", "inc", TFnInt, <<EInt(1)>>),
      call_select |-> ECall(EModuleSelect("lib", "lib", "inc", TFnInt),
                            <<EInt(1)>>),
      call_renamed |-> CallAs("lib", "inc", "bump", TFnInt, <<EInt(1)>>),
      call_all |-> EBinOp("AddInt", CallF(1),
                          EBinOp("AddInt",
                                 CallIn("lib", "inc", TFnInt, <<EInt(1)>>),
                                 ECall(EModuleSelect("lib", "lib", "inc",
                                                     TFnInt), <<EInt(2)>>),
                                 TInt),
                          TInt),
      argument |-> EBinOp("AddInt", Local("x", TInt), CallF(1), TInt) ]

BodyNames == DOMAIN Bodies

AllKeys ==
    <<FunctionAccessKey("", "f", ""), FunctionAccessKey("", "g", ""),
      FunctionAccessKey("", "h", ""), FunctionAccessKey("", "id", ""),
      FunctionAccessKey("", "id", "_int"), FunctionAccessKey("", "k", ""),
      FunctionAccessKey("", "r", ""), FunctionAccessKey("", "z", ""),
      FunctionAccessKey("", "ze", ""), FunctionAccessKey("", "zp", ""),
      FunctionAccessKey("", "zr", ""), FunctionAccessKey("lib", "z", ""),
      FunctionAccessKey("lib", "inc", "")>>

\* the iteration orders of a HashMap the model tells apart
HashOrders == {"ascending", "descending"}
HashOrder(name) == IF name = "ascending" THEN AllKeys ELSE Rev(AllKeys)

ArgX == <<Arg("x", TInt)>>

\* the calls generate(body, arguments, wrap_as_validator) the model makes
Input(body, arguments, wrap_as_validator, hash_order) ==
    [body |-> body, arguments |-> arguments,
     wrap_as_validator |-> wrap_as_validator, hash_order |-> hash_order]

\* the bodies that call a function of another module by its name, through
\* the module, and under another name
NamingBodies == {"call_lib", "call_select", "call_renamed", "call_all"}

Inputs ==
    {Input(b, <<>>, FALSE, "ascending") :
        b \in BodyNames \ ({"list", "argument"} \cup NamingBodies)}
    \cup {Input(b, ArgX, w, "ascending") : b \in {"list", "argument", "int"},
                                           w \in BOOLEAN}
    \cup {Input(b, <<>>, TRUE, "ascending") :
             b \in {"int", "call", "record_access"}}
    \cup {Input(b, <<>>, FALSE, "descending") : b \in {"deps", "zero_arg"}}

----------------------------------------------------------------------------
(* CodeGenerator::new and CodeGenerator::generate *)

NoProgram == [version |-> <<0, 0, 0>>, term |-> TermError]
NoStep == [air |-> "", scope |-> <<>>, count |-> 0, pops |-> 0, pushes |-> 0,
           before |-> 0, matches |-> 0]
NoInput == Input("int", <<>>, FALSE, "ascending")

\* the fields of a generator as CodeGenerator::new leaves them
Init ==
    /\ pc = "idle"
    /\ id_gen = 0
    /\ defined_functions = {}
    /\ zero_arg_functions = EmptyFn
    /\ needs_field_access = FALSE
    /\ ir_stack = <<>>
    /\ arg_stack = <<>>
    /\ final_air = <<>>
    /\ cur = [input |-> NoInput, id0 |-> 0]
    /\ program = NoProgram
    /\ calls = 0
    /\ last_step = NoStep
    /\ wrappers = <<>>

\* the first part of generate(): build_ir and define_ir, for a generator
\* whose fields are G
plan(input, G) ==
    LET defined(b) ==
          define_ir(b.ir, G.defined, G.zero, b.id, b.nfa,
                    HashOrder(input.hash_order))
    IN defined(build_ir(Bodies[input.body], <<G.id>>, G.id + 1, G.nfa))

\* the last part of generate() as it would be if the argument wrapper were
\* applied to validators only
wrappers_applied_to_validators(input, nfa) ==
    (IF nfa THEN <<"constr_get_field", "constr_fields_exposer">> ELSE <<>>)
    \o (IF input.wrap_as_validator
        THEN <<"final_wrapper", "wrap_validator_args">> ELSE <<>>)

\* the last part of generate(): the wrappers around the synthesized term
wrappers_applied(input, nfa) ==
    (IF nfa THEN <<"constr_get_field", "constr_fields_exposer">> ELSE <<>>)
    \o (IF input.wrap_as_validator THEN <<"final_wrapper">> ELSE <<>>)
    \o <<"wrap_validator_args">>

apply_wrapper(name, term, input) ==
    CASE name = "constr_get_field" -> constr_get_field(term)
      [] name = "constr_fields_exposer" -> constr_fields_exposer(term)
      [] name = "final_wrapper" -> final_wrapper(term)
      [] name = "wrap_validator_args" ->
            wrap_validator_args(term, input.arguments)

RECURSIVE wrap_with(_, _, _)
wrap_with(names, term, input) ==
    IF names = <<>> THEN term
    ELSE wrap_with(Tail(names), apply_wrapper(Head(names), term, input), input)

\* the term generate() returns for the term uplc_code_gen returned
wrapped(term, input, nfa) ==
    wrap_with(wrappers_applied(input, nfa), term, input)

\* generate(body, arguments, wrap_as_validator): lowering and planning
Generate(input) ==
    /\ pc \in {"idle", "done"}
    /\ calls < MaxGenerations
    /\ LET planned_as(d) ==
             /\ pc' = IF d.panic THEN "panic_define" ELSE "synth"
             /\ id_gen' = d.id
             /\ needs_field_access' = d.nfa
             /\ defined_functions' = d.defined
             /\ zero_arg_functions' = d.zero
             /\ ir_stack' = d.ir
             /\ final_air' = d.ir
       IN planned_as(plan(input, [id |-> id_gen, nfa |-> needs_field_access,
                                  defined |-> defined_functions,
                                  zero |-> zero_arg_functions]))
    /\ arg_stack' = <<>>
    /\ cur' = [input |-> input, id0 |-> id_gen]
    /\ program' = NoProgram
    /\ calls' = calls + 1
    /\ last_step' = NoStep
    /\ wrappers' = <<>>

\* the number of entries of zero_arg_functions that carry the name of the Var
\* on top of stack (none when the top is no Var)
zero_arg_entries(stack) ==
    IF stack = <<>> \/ ~is_term_var(Last(stack)) THEN 0
    ELSE Cardinality({key \in DOMAIN zero_arg_functions :
                         zero_arg_matches(key, Last(stack)[2])})

\* one turn of the loop of uplc_code_gen: gen_uplc on the last instruction
GenUplcStep ==
    /\ pc = "synth"
    /\ ir_stack # <<>>
    /\ LET ir == Last(ir_stack)
           k == IF Len(arg_stack) < operands(ir) THEN Len(arg_stack)
                ELSE operands(ir)
           stepped(S) ==
             /\ pc' = IF ~S.panic THEN "synth"
                      ELSE IF Len(arg_stack) < operands(ir) THEN "panic_stack"
                      ELSE "panic_zero_arg"
             /\ arg_stack' = S.stack
             /\ id_gen' = S.id
             /\ needs_field_access' = S.nfa
             /\ last_step' = [air |-> ir.air, scope |-> ir.scope,
                              count |-> IF ir.air = "Call" THEN ir.count ELSE 0,
                              pops |-> k,
                              pushes |-> Len(S.stack) - (Len(arg_stack) - k),
                              before |-> Len(arg_stack),
                              matches |-> zero_arg_entries(arg_stack)]
       IN stepped(gen_uplc(ir, [stack |-> arg_stack, id |-> id_gen,
                                nfa |-> needs_field_access, panic |-> FALSE],
                           zero_arg_functions,
                           HashOrder(cur.input.hash_order)))
    /\ ir_stack' = Front(ir_stack)
    /\ UNCHANGED <<defined_functions, zero_arg_functions, final_air, cur,
                   program, calls, wrappers>>

\* the end of generate(): arg_stack[0] is wrapped and returned as a Program
Finish ==
    /\ pc = "synth"
    /\ ir_stack = <<>>
    /\ IF arg_stack = <<>>
       THEN /\ pc' = "panic_stack"
            /\ UNCHANGED <<program, wrappers>>
       ELSE /\ pc' = "done"
            /\ program' = [version |-> <<1, 0, 0>>,
                           term |-> wrapped(arg_stack[1], cur.input,
                                            needs_field_access)]
            /\ wrappers' = wrappers_applied(cur.input, needs_field_access)
    /\ UNCHANGED <<id_gen, defined_functions, zero_arg_functions,
                   needs_field_access, ir_stack, arg_stack, final_air, cur,
                   calls, last_step>>

Next ==
    \/ \E input \in Inputs : Generate(input)
    \/ GenUplcStep
    \/ Finish

Spec == Init /\ [][Next]_vars

----------------------------------------------------------------------------
(* Reading the AIR that define_ir leaves *)

planned == pc \in {"synth", "done", "panic_stack", "panic_zero_arg"}

\* the keys of the module functions the Var instructions of air reference
used_keys(air) ==
    {key_of_var(air[i]) : i \in {j \in 1..Len(air) : is_module_fn_var(air[j])}}

key_of_define(a) ==
    FunctionAccessKey(a.module_name, a.func_name, a.variant_name)

\* the positions of the DefineFunc instructions of air for key
define_positions(air, key) ==
    {i \in 1..Len(air) : air[i].air = "DefineFunc" /\ key_of_define(air[i]) = key}

\* the positions of the Var instructions of air that reference key
var_positions(air, key) ==
    {i \in 1..Len(air) : is_module_fn_var(air[i]) /\ key_of_var(air[i]) = key}

\* C1: every module function the final AIR references is accounted for exactly
\* once: by exactly one DefineFunc and no zero_arg_functions entry, or by a
\* zero_arg_functions entry and no DefineFunc; no Var is left without either
C1_AccountedOnce ==
    planned =>
        \A key \in used_keys(final_air) :
            \/ /\ Cardinality(define_positions(final_air, key)) = 1
               /\ key \notin DOMAIN zero_arg_functions
            \/ /\ define_positions(final_air, key) = {}
               /\ key \in DOMAIN zero_arg_functions

\* the same on the first generate() call of a generator only
C1_AccountedOnceFirstCall == calls = 1 => C1_AccountedOnce

\* the scopes of the Var instructions of air that reference key
var_scopes(air, key) == {air[i].scope : i \in var_positions(air, key)}

common_to_all(scopes, one, n) ==
    \A s \in scopes : Len(s) >= n /\ SubSeq(s, 1, n) = SubSeq(one, 1, n)

\* the longest common prefix of a non-empty set of scopes
longest_common_prefix(scopes) ==
    LET one == CHOOSE s \in scopes : TRUE
        n == CHOOSE m \in 0..Len(one) :
                 /\ common_to_all(scopes, one, m)
                 /\ \A l \in (m + 1)..Len(one) : ~common_to_all(scopes, one, l)
    IN SubSeq(one, 1, n)

define_indices(air) == {i \in 1..Len(air) : air[i].air = "DefineFunc"}

\* C2: for every DefineFunc emitted with scope S for a function F, every Var of
\* the final AIR that references F carries a scope that has S as a prefix
C2_DefineScopeEnclosesVars ==
    planned =>
        \A i \in define_indices(final_air) :
            \A j \in var_positions(final_air, key_of_define(final_air[i])) :
                IsPrefix(final_air[i].scope, final_air[j].scope)

\* a function with call sites in different branches of the scope tree has
\* been given its DefineFunc
C2_SeveralCallSites ==
    /\ planned
    /\ \E i \in define_indices(final_air) :
           /\ Cardinality(var_scopes(final_air, key_of_define(final_air[i]))) >= 2
           /\ final_air[i].scope # <<>>

\* C3: the DefineFunc of a function F is positioned before every Var of the
\* final AIR that uses F (the Vars of F's own body follow the DefineFunc too)
C3_DefinedBeforeUse ==
    planned =>
        \A key \in used_keys(final_air) :
            define_positions(final_air, key) # {} =>
                \A j \in var_positions(final_air, key) :
                    \E i \in define_positions(final_air, key) : i < j

step_completed == last_step.air # "" /\ pc \in {"synth", "done"}

C6_StackDiscipline ==
    /\ pc # "panic_stack"
    /\ (pc = "synth" /\ ir_stack = <<>>) \/ pc = "done" => Len(arg_stack) = 1

\* what generate(cur.input) plans on a freshly constructed generator whose id
\* generator stands where this one stood when the call began
fresh_plan ==
    plan(cur.input, [id |-> cur.id0, nfa |-> FALSE, defined |-> {},
                     zero |-> EmptyFn])

\* needs_field_access at the end of that call on the fresh generator
fresh_needs_field_access ==
    LET d == fresh_plan
    IN d.nfa \/ uplc_code_gen(d.ir, d.id, d.nfa, d.zero,
                              HashOrder(cur.input.hash_order)).nfa

\* C7: a generate() call on a generator that has been used behaves as on a
\* fresh one: it plans the same AIR (a DefineFunc for every function its body
\* uses), leaves the same defined_functions and zero_arg_functions, and adds
\* the field-access helpers only if this body needs them
C7_BehavesAsFresh ==
    calls >= 1 =>
        /\ final_air = fresh_plan.ir
        /\ defined_functions = fresh_plan.defined
        /\ DOMAIN zero_arg_functions = DOMAIN fresh_plan.zero
        /\ pc = "done" =>
               ("constr_get_field" \in {wrappers[i] : i \in 1..Len(wrappers)}
                    <=> fresh_needs_field_access)

\* the instructions for which the helper combinators exist
is_field_access(a) ==
    \/ a.air \in {"RecordAccess", "FieldsExpose"}
    \/ a.air = "TupleIndex" /\ ~is_pair(a.tipo)

\* the program contains such an instruction: in the final AIR, or in the AIR
\* of a zero-argument function the final AIR calls
program_has_field_access ==
    \/ \E i \in 1..Len(final_air) : is_field_access(final_air[i])
    \/ \E key \in used_keys(final_air) \cap DOMAIN zero_arg_functions :
           \E i \in 1..Len(zero_arg_functions[key]) :
               is_field_access(zero_arg_functions[key][i])

times_applied(wrapper) ==
    Cardinality({i \in 1..Len(wrappers) : wrappers[i] = wrapper})

\* C8: the returned program is wrapped with constr_get_field and
\* constr_fields_exposer exactly once when the program contains a RecordAccess,
\* a FieldsExpose or a TupleIndex on a tuple longer than a pair, and not at all
\* when it contains none
C8_HelpersIffFieldAccess ==
    pc = "done" =>
        LET n == IF program_has_field_access THEN 1 ELSE 0
        IN /\ times_applied("constr_get_field") = n
           /\ times_applied("constr_fields_exposer") = n

\* the same on the first generate() call of a generator only
C8_HelpersIffFieldAccessFirstCall == calls = 1 => C8_HelpersIffFieldAccess

\* C9, as stated: final_wrapper and wrap_validator_args are both applied when
\* wrap_as_validator is true and neither is applied when it is false; the
\* program version is (1, 0, 0)
C9_BothWrappersIffValidator ==
    pc = "done" =>
        /\ program.version = <<1, 0, 0>>
        /\ LET n == IF cur.input.wrap_as_validator THEN 1 ELSE 0
           IN /\ times_applied("final_wrapper") = n
              /\ times_applied("wrap_validator_args") = n

\* C9, amended: final_wrapper is applied exactly when wrap_as_validator is
\* true, wrap_validator_args(arguments) is applied once in either case, after
\* final_wrapper; the program version is (1, 0, 0)
C9_ArgumentsAlwaysWrapped ==
    pc = "done" =>
        /\ program.version = <<1, 0, 0>>
        /\ times_applied("final_wrapper")
               = (IF cur.input.wrap_as_validator THEN 1 ELSE 0)
        /\ times_applied("wrap_validator_args") = 1
        /\ Last(wrappers) = "wrap_validator_args"

\* a program that is no validator and has arguments has been returned under
\* the lambdas of wrap_validator_args
C9_TestWithArguments ==
    /\ pc = "done"
    /\ ~cur.input.wrap_as_validator
    /\ cur.input.arguments # <<>>
    /\ times_applied("wrap_validator_args") = 1
    /\ program.term[1] = "Lambda"

----------------------------------------------------------------------------
(* Constructor encoding and matching: the term of a record constructor is
   applied to field values and the FieldsExpose term takes them out again *)

\* the largest number of fields of the constructors tried
MaxFields == 3

Constructors ==
    { RecordConstructor("Point", <<"px", "py">>, TRUE, 2,
                        TFn(<<TInt, TInt>>, TPoint)),
      RecordConstructor("User", <<"uid", "name">>, TRUE, 2,
                        TFn(<<TInt, TBytes>>, TUser)),
      RecordConstructor("Box", <<>>, FALSE, 2, TFn(<<TInt, TInt>>, TBox)),
      RecordConstructor("Some", <<>>, FALSE, 1, TFn(<<TInt>>, TOpt)),
      RecordConstructor("Triple", <<>>, FALSE, 3,
                        TFn(<<TInt, TInt, TInt>>, TShape)),
      RecordConstructor("Mixed", <<>>, FALSE, 2, TFn(<<TInt, TBytes>>, TShape)) }

\* the field values tried, as UPLC constants of the field's type
FieldValues(tipo) ==
    IF is_int(tipo) THEN {Integer(1), Integer(2)}
    ELSE {ByteString("a"), ByteString("b")}

\* x1..xn for a constructor: one value of its own type for every field
FieldVectors(constructor) ==
    LET types == arg_types(constructor.tipo)
    IN {xs \in [1..Len(types) -> UNION {FieldValues(types[i]) :
                                          i \in 1..Len(types)}] :
           \A i \in 1..Len(types) : xs[i] \in FieldValues(types[i])}

\* the non-empty selections of the indices 0..n-1, in ascending order
Selections(n) ==
    UNION {{q \in [1..k -> 0..(n - 1)] :
               \A i, j \in 1..k : i < j => q[i] < q[j]} : k \in 1..n}

RECURSIVE apply_all(_, _)
apply_all(term, xs) ==
    IF xs = <<>> THEN term
    ELSE apply_all(TermApply(term, TermConstant(Head(xs))), Tail(xs))

\* the value of a generated term under the two helper combinators, as
\* generate() wraps it
value_of(term) ==
    eval(constr_fields_exposer(constr_get_field(term)), <<>>, MaxEvalSteps)

\* that value read back as a term; Error where the evaluation fails
result_of(term) ==
    LET v == value_of(term) IN IF v = Fail THEN TermError ELSE discharge(v)

\* the entries (index, name, type) a pattern of the constructor gives
\* FieldsExpose for the selection
exposed_fields(constructor, selection) ==
    [k \in 1..Len(selection) |->
        [index |-> selection[k],
         name |-> "y" \o ToString(selection[k]),
         tipo |-> arg_types(constructor.tipo)[selection[k] + 1]]]

\* no generate() call has been made: the generator is as new() leaves it
ConstrInit == Init

\* the constructor term (gen_uplc, Air::Var of a record constructor) applied
\* to x1..xn and evaluated
Construct(constructor, xs) ==
    /\ pc = "idle"
    /\ Len(xs) <= MaxFields
    /\ LET term == apply_all(record_constructor_term(constructor), xs)
       IN /\ program' = [version |-> <<1, 0, 0>>, term |-> term]
          /\ arg_stack' = <<result_of(term)>>
    /\ cur' = [input |-> [constructor |-> constructor, xs |-> xs,
                          selection |-> <<>>],
               id0 |-> id_gen]
    /\ pc' = "constructed"
    /\ UNCHANGED <<id_gen, defined_functions, zero_arg_functions,
                   needs_field_access, ir_stack, final_air, calls, last_step,
                   wrappers>>

\* FieldsExpose (gen_uplc, Air::FieldsExpose) over the constructed value, once
\* for every selected name as the body
Expose(selection) ==
    /\ pc = "constructed"
    /\ Len(selection) <= Len(cur.input.xs)
    /\ selection[Len(selection)] < Len(cur.input.xs)
    /\ LET fields == exposed_fields(cur.input.constructor, selection)
       IN arg_stack' =
              [k \in 1..Len(selection) |->
                  result_of(fields_expose_term(fields, program.term,
                                               TermVar(fields[k].name),
                                               id_gen))]
    /\ cur' = [cur EXCEPT !.input.selection = selection]
    /\ needs_field_access' = TRUE
    /\ id_gen' = id_gen + selection[Len(selection)] + 1
    /\ pc' = "exposed"
    /\ UNCHANGED <<defined_functions, zero_arg_functions, ir_stack, final_air,
                   program, calls, last_step, wrappers>>

ConstrNext ==
    \/ \E constructor \in Constructors :
           \E xs \in FieldVectors(constructor) : Construct(constructor, xs)
    \/ \E selection \in Selections(MaxFields) : Expose(selection)

SpecConstr == ConstrInit /\ [][ConstrNext]_vars

\* the Data a field value of the given type is carried as
to_data(x, tipo) ==
    IF is_int(tipo) THEN <<"I", x[2]>> ELSE <<"B", x[2]>>

\* ConstrData(index of C, [d1..dn]) for the constructor and values of cur
expected_constr ==
    LET constructor == cur.input.constructor
        types == arg_types(constructor.tipo)
    IN TermConstant(Data(
           <<"Constr",
             constr_index_of(data_type_of(constructor.tipo), constructor.name),
             [i \in 1..Len(types) |-> to_data(cur.input.xs[i], types[i])]>>))

round_trip ==
    /\ pc = "constructed" => arg_stack = <<expected_constr>>
    /\ pc = "exposed" =>
           \A k \in 1..Len(cur.input.selection) :
               arg_stack[k]
                   = TermConstant(cur.input.xs[cur.input.selection[k] + 1])

\* C10: the constructor term applied to x1..xn gives ConstrData(index of C,
\* [d1..dn]) with di at list position i, and FieldsExpose over that value binds
\* each selected name_i to xi, for record and positional constructors
C10_RoundTrip == pc \in {"constructed", "exposed"} => round_trip

\* the same for the constructors with a field map and for the positional
\* constructors whose fields all have one type
C10_RoundTripUniform ==
    /\ pc \in {"constructed", "exposed"}
    /\ \/ cur.input.constructor.has_field_map
       \/ \A t \in {arg_types(cur.input.constructor.tipo)[i] :
                       i \in 1..Len(arg_types(cur.input.constructor.tipo))} :
              t = TInt
    => round_trip

----------------------------------------------------------------------------
(* Single steps of gen_uplc: one instruction is synthesized over operand
   terms that earlier steps left on arg_stack, and the result is packaged *)

\* the most elements a synthesized list or tuple is given
MaxElems == 2

DataI(i) == Data(<<"I", i>>)
TMap == TList(TPair)

\* operand types BinOp dispatches on: int, string, bytearray, bool, map,
\* list, pair, void and other data
BinOpTypes == {TInt, TString, TBytes, TBool, TMap, TList(TInt), TPair, TVoid, TOpt}

\* the constants tried as operands of a type, as the steps before leave them
Values(tipo) ==
    CASE is_int(tipo) -> {Integer(1), Integer(2)}
      [] is_string(tipo) -> {String("a"), String("b")}
      [] is_bytearray(tipo) -> {ByteString("a"), ByteString("b")}
      [] is_bool(tipo) -> {Bool(TRUE), Bool(FALSE)}
      [] is_map(tipo) ->
            {ProtoList(<<>>), ProtoList(<<ProtoPair(DataI(1), DataI(2))>>)}
      [] is_list(tipo) ->
            {ProtoList(<<>>), ProtoList(<<DataI(1)>>),
             ProtoList(<<DataI(1), DataI(2)>>)}
      [] is_pair(tipo) ->
            {ProtoPair(DataI(1), DataI(2)), ProtoPair(DataI(1), DataI(1))}
      [] is_void(tipo) -> {Unit}
      [] OTHER -> {Data(<<"Constr", 1, <<>>>>), Data(<<"Constr", 0, <<<<"I", 1>>>>>>),
                   Data(<<"Constr", 0, <<<<"I", 2>>>>>>)}

\* a step: the instruction and the terms it pops, the first popped first
Step(ir, popped) == [ir |-> ir, operands |-> popped]

BinOpSteps ==
    {Step(AirBinOp(<<0>>, name, tipo), <<TermConstant(l), TermConstant(r)>>) :
        name \in {"Eq", "NotEq"},
        tipo \in BinOpTypes,
        l \in UNION {Values(t) : t \in BinOpTypes},
        r \in UNION {Values(t) : t \in BinOpTypes}}

WellTypedBinOpSteps ==
    {step \in BinOpSteps :
        /\ step.operands[1][2] \in Values(step.ir.tipo)
        /\ step.operands[2][2] \in Values(step.ir.tipo)}

\* the element terms tried for a list or tuple: constants and a variable
Elements(tipo) ==
    IF is_pair(tipo)
    THEN {TermConstant(ProtoPair(DataI(1), DataI(2))), TermVar("kv")}
    ELSE {TermConstant(Integer(1)), TermConstant(Integer(2)), TermVar("x")}

\* the sequences of n terms of a set
Tuples(set, n) == [1..n -> set]

ListSteps ==
    UNION {
      {Step(AirList(<<0>>, n, tipo, FALSE), elems) :
          elems \in Tuples(Elements(tipo[2]), n)}
      \cup {Step(AirList(<<0>>, n, tipo, TRUE), Append(elems, TermVar("rest"))) :
               elems \in Tuples(Elements(tipo[2]), n)}
      : n \in 0..MaxElems, tipo \in {TList(TInt), TMap}}

TupleSteps ==
    UNION {{Step(AirTuple(<<0>>, TTuple([i \in 1..n |-> TInt]), n), elems) :
               elems \in Tuples(Elements(TInt), n)} : n \in 2..(MaxElems + 1)}

\* Finally over the test of the last clause
FinallySteps == {Step(AirFinally(<<0>>), <<TermConstant(Integer(1))>>)}

\* the terms left for a clause: its body gives 10, the next alternative 20
ClauseBody == TermConstant(Integer(10))
NextClause == TermConstant(Integer(20))
ClauseSubject == "__subject_name_0"

\* Clause over the test value, the body and the next alternative
ClauseSteps ==
    {Step(AirClause(<<0>>, tipo, complex, ClauseSubject),
          <<TermConstant(test), ClauseBody, NextClause>>) :
        tipo \in {TInt, TBytes, TString}, complex \in BOOLEAN,
        test \in UNION {Values(t) : t \in {TInt, TBytes, TString}}}

WellTypedClauseSteps ==
    {step \in ClauseSteps : step.operands[1][2] \in Values(step.ir.tipo)}

\* ListClause over the discarded term, the body and the next alternative,
\* in the order inverse asks for
ListClauseSteps ==
    {Step(AirListClause(<<0>>, TList(TInt), ClauseSubject, next_tail,
                        complex, inverse),
          IF inverse
          THEN <<TermConstant(Unit), NextClause, ClauseBody>>
          ELSE <<TermConstant(Unit), ClauseBody, NextClause>>) :
        next_tail \in {<<>>, <<"__tail_0">>}, complex \in BOOLEAN,
        inverse \in BOOLEAN}

\* the bodies of a tuple clause: a constant, a variable of the pattern, and
\* the alternative forced as a guard of a nested pattern does
TupleClauseBodies ==
    {ClauseBody, TermVar("b"), TermForce(TermVar("__other_clauses_delayed"))}

\* TupleClause over the body and, when complex, the next alternative
TupleClauseSteps ==
    {Step(AirTupleClause(<<0>>, TPair, {<<0, "a">>, <<1, "b">>}, {},
                         ClauseSubject, 2, TRUE),
          <<body, NextClause>>) : body \in TupleClauseBodies}
    \cup {Step(AirTupleClause(<<0>>, TPair, {<<0, "a">>, <<1, "b">>}, {},
                              ClauseSubject, 2, FALSE),
               <<body>>) : body \in {ClauseBody, TermVar("b")}}

Steps ==
    WellTypedBinOpSteps \cup ListSteps \cup TupleSteps \cup FinallySteps
    \cup WellTypedClauseSteps \cup ListClauseSteps \cup TupleClauseSteps

\* the steps before have left the operands on arg_stack, the first one to be
\* popped on top, and the instruction is the one left on ir_stack
Operands(step) ==
    /\ pc = "idle"
    /\ pc' = "synth"
    /\ ir_stack' = <<step.ir>>
    /\ final_air' = <<step.ir>>
    /\ arg_stack' = Rev(step.operands)
    /\ cur' = [input |-> NoInput, id0 |-> id_gen, step |-> step]
    /\ UNCHANGED <<id_gen, defined_functions, zero_arg_functions,
                   needs_field_access, program, calls, last_step, wrappers>>

StepNext ==
    \/ \E step \in Steps : Operands(step)
    \/ GenUplcStep
    \/ Finish

SpecStep == Init /\ [][StepNext]_vars

\* the instruction of cur.step has been synthesized
synthesized(air) ==
    /\ pc = "synth"
    /\ ir_stack = <<>>
    /\ last_step.air = air
    /\ Len(arg_stack) = 1

\* the value of a closed term; Fail where the machine raises an error
closed_value(term) == eval(term, <<>>, MaxEvalSteps)

\* the term of `l == r` for the operands of the step of cur
eq_of_step ==
    bin_op_term(AirBinOp(cur.step.ir.scope, "Eq", cur.step.ir.tipo),
                cur.step.operands[1], cur.step.operands[2])

\* value is a boolean and other is the opposite boolean
negates(value, other) ==
    /\ is_con(value, "Bool")
    /\ is_con(other, "Bool")
    /\ value[2][2] = ~other[2][2]

not_eq_synthesized == synthesized("BinOp") /\ cur.step.ir.name = "NotEq"

\* C11: for every operand type BinOp dispatches on, the term synthesized for
\* `l != r` is the boolean negation of the term synthesized for `l == r` on
\* the same operands
C11_NotEqNegatesEq ==
    not_eq_synthesized
    => negates(closed_value(arg_stack[1]), closed_value(eq_of_step))

\* the same for the operand types other than list and pair
C11_NotEqNegatesEqElsewhere ==
    /\ not_eq_synthesized
    /\ is_map(cur.step.ir.tipo)
       \/ ~(is_list(cur.step.ir.tipo) \/ is_pair(cur.step.ir.tipo))
    => negates(closed_value(arg_stack[1]), closed_value(eq_of_step))

\* `l == r` itself gives a boolean for every operand type
C11_EqGivesBool ==
    synthesized("BinOp") /\ cur.step.ir.name = "Eq"
    => is_con(closed_value(arg_stack[1]), "Bool")

\* the element operands of the step of cur (without the tail of a list)
elements_of_step == SubSeq(cur.step.operands, 1, cur.step.ir.count)

all_constant(terms) == \A i \in 1..Len(terms) : is_constant(terms[i])

RECURSIVE is_cons_chain(_, _, _)
\* term is MkCons applied n times, the innermost one onto `end`
is_cons_chain(term, n, end) ==
    IF n = 0 THEN term = end
    ELSE /\ term[1] = "Apply"
         /\ term[2][1] = "Apply"
         /\ term[2][2] = TermForce(TermBuiltin("MkCons"))
         /\ is_cons_chain(term[3], n - 1, end)

\* term is one constant list of n items, pairs when the list is a map
is_list_constant(term, n, of_pairs) ==
    /\ is_constant(term)
    /\ term[2][1] = "ProtoList"
    /\ Len(term[2][2]) = n
    /\ of_pairs => \A i \in 1..n : term[2][2][i][1] = "ProtoPair"

\* C12: a List whose elements are all constants and that has no tail is
\* synthesized as one ProtoList constant (of ProtoPair for a map) and a Tuple
\* of two constants as one ProtoPair constant; a list with a tail or with a
\* non-constant element is a MkCons chain onto the tail or the empty list
C12_ConstantsFold ==
    /\ synthesized("List") /\ all_constant(elements_of_step)
       /\ ~cur.step.ir.tail
       => is_list_constant(arg_stack[1], cur.step.ir.count,
                           is_map(cur.step.ir.tipo))
    /\ synthesized("List")
       /\ (cur.step.ir.tail \/ ~all_constant(elements_of_step))
       => is_cons_chain(arg_stack[1], cur.step.ir.count,
                        IF cur.step.ir.tail
                        THEN cur.step.operands[cur.step.ir.count + 1]
                        ELSE TermConstant(ProtoList(<<>>)))
    /\ synthesized("Tuple") /\ cur.step.ir.count = 2
       /\ all_constant(elements_of_step)
       => is_constant(arg_stack[1]) /\ arg_stack[1][2][1] = "ProtoPair"

\* a map of two constant pairs has been synthesized
C12_ConstantMap ==
    /\ synthesized("List")
    /\ is_map(cur.step.ir.tipo)
    /\ cur.step.ir.count = 2
    /\ ~cur.step.ir.tail
    /\ all_constant(elements_of_step)
    /\ is_list_constant(arg_stack[1], 2, TRUE)

----------------------------------------------------------------------------
(* The functions define_ir discovers and what it emits for them *)

\* func_components as define_recurse_ir leaves it for the call of cur: it
\* depends on the body and the id generator only
discovered == fresh_plan.fc

\* the AIR of every entry of zero_arg_functions
zero_arg_airs == {zero_arg_functions[key] : key \in DOMAIN zero_arg_functions}

\* a DefineFunc for key stands in the final AIR or in a zero-argument AIR
define_emitted(key) ==
    \/ define_positions(final_air, key) # {}
    \/ \E air \in zero_arg_airs : define_positions(air, key) # {}

\* air ends with body and the part before it defines every function of keys
defines_then_body(air, keys, body) ==
    /\ Len(air) >= Len(body)
    /\ SubSeq(air, Len(air) - Len(body) + 1, Len(air)) = body
    /\ \A key \in keys :
           \E i \in define_positions(air, key) : i <= Len(air) - Len(body)

RECURSIVE dependency_closure(_, _)
\* the functions with parameters that the functions of keys depend on,
\* directly or through other functions
dependency_closure(keys, seen) ==
    LET new == UNION {{d \in {MapGet(discovered, key).dependencies[i] :
                                 i \in 1..Len(MapGet(discovered, key).dependencies)} :
                          MapHas(discovered, d)} : key \in keys} \ seen
    IN IF new = {} THEN seen ELSE dependency_closure(new, seen \cup new)

with_parameters(keys) == {key \in keys : MapGet(discovered, key).args # <<>>}

\* C13: a discovered function gets a DefineFunc if and only if it has at
\* least one parameter; a discovered function without parameters gets an entry
\* of zero_arg_functions instead, whose AIR is the definitions of all its
\* dependencies followed by its own body
C13_DefineFuncIffParameters ==
    planned =>
        \A i \in 1..Len(discovered) :
            LET key == discovered[i].k
                comp == discovered[i].v
            IN /\ define_emitted(key) <=> comp.args # <<>>
               /\ comp.args = <<>> =>
                     /\ key \in DOMAIN zero_arg_functions
                     /\ defines_then_body(
                            zero_arg_functions[key],
                            with_parameters(dependency_closure({key}, {})),
                            comp.ir)

\* the same on the first generate() call of a generator only
C13_DefineFuncIffParametersFirstCall ==
    calls = 1 => C13_DefineFuncIffParameters

----------------------------------------------------------------------------
(* Call with count 0: the compile-time evaluation of zero-argument functions *)

\* the step just made is a Call with count 0 whose callee names at least one
\* entry of zero_arg_functions
zero_arg_call_stepped ==
    /\ last_step.air = "Call"
    /\ last_step.count = 0
    /\ last_step.matches >= 1

\* a term the machine returns: no redex is left at its head
is_value_term(term) == term[1] \in {"Constant", "Lambda", "Delay", "Builtin"}

\* the evaluation failed: generate() has ended without a Program
failure_yields_no_program ==
    pc = "panic_zero_arg" => zero_arg_call_stepped /\ program = NoProgram

\* the evaluation succeeded: one evaluated term stands where the callee stood
success_pushes_one ==
    zero_arg_call_stepped /\ pc = "synth" =>
        /\ last_step.pushes = 1
        /\ Len(arg_stack) = last_step.before
        /\ is_value_term(Last(arg_stack))

\* C14: when a Call with count 0 resolves to a function of zero_arg_functions
\* and its compile-time evaluation fails or exhausts the budget, generate()
\* fails and yields no Program; when it succeeds, exactly one term, the
\* evaluated value, takes the place of the call on the operand stack
C14_ZeroArgEvaluation == failure_yields_no_program /\ success_pushes_one

\* the failure half alone
C14_FailureYieldsNoProgram == failure_yields_no_program

\* the success half when the callee names one entry of zero_arg_functions
C14_OneEntryPushesOne == last_step.matches = 1 => success_pushes_one

\* the evaluation of a function that never returns has exhausted the budget
C14_EvaluationFailed ==
    pc = "panic_zero_arg" /\ cur.input.body = "zero_arg_loop"

----------------------------------------------------------------------------
(* The ordering loop of define_ir on its own *)

\* functions define_recurse_ir has discovered
MaxFunctions == 3

OrderNames == <<"f", "g", "k", "r", "h">>
OrderKeys == {FunctionAccessKey("", OrderNames[i], "") : i \in 1..MaxFunctions}

RECURSIVE Arrangements(_)
\* the sequences without repetition over a set of keys, of every length
Arrangements(keys) ==
    {<<>>} \cup UNION {{<<k>> \o rest : rest \in Arrangements(keys \ {k})} :
                       k \in keys}

RECURSIVE AcyclicAlong(_)
\* the dependency graphs in which every function depends only on functions
\* that stand before it in topo, as an IndexMap key -> dependencies
AcyclicAlong(topo) ==
    IF topo = <<>> THEN {<<>>}
    ELSE {Append(graph, [k |-> Last(topo), v |-> dependencies]) :
            graph \in AcyclicAlong(Front(topo)),
            dependencies \in Arrangements({topo[i] : i \in 1..Len(topo) - 1})}

\* func_components with its keys in the order key_order
components_in(key_order, graph) ==
    [i \in 1..Len(key_order) |->
        [k |-> key_order[i],
         v |-> FuncComponents(<<>>, MapGet(graph, key_order[i]), FALSE,
                              <<"x">>)]]

\* the orders in which the keys of a graph can stand in func_components
KeyOrders(graph) ==
    {key_order \in Arrangements({graph[i].k : i \in 1..Len(graph)}) :
        Len(key_order) = Len(graph)}

\* define_recurse_ir has returned func_components: any acyclic dependency
\* graph over the keys, its keys in any order
Discover ==
    /\ pc = "idle"
    /\ pc' = "discovered"
    /\ \E topo \in Arrangements(OrderKeys) \ {<<>>} :
          \E graph \in AcyclicAlong(topo) :
              \E key_order \in KeyOrders(graph) :
                  cur' = [input |-> NoInput, id0 |-> id_gen,
                          func_components |-> components_in(key_order, graph),
                          dependency_vec |-> <<>>]
    /\ UNCHANGED <<id_gen, defined_functions, zero_arg_functions,
                   needs_field_access, ir_stack, arg_stack, final_air,
                   program, calls, last_step, wrappers>>

\* the ordering loop of define_ir has filled dependency_vec
OrderFunctions ==
    /\ pc = "discovered"
    /\ pc' = "ordered"
    /\ cur' = [cur EXCEPT !.dependency_vec =
                  dependency_order(MapKeys(cur.func_components), <<>>,
                                   cur.func_components)]
    /\ UNCHANGED <<id_gen, defined_functions, zero_arg_functions,
                   needs_field_access, ir_stack, arg_stack, final_air,
                   program, calls, last_step, wrappers>>

OrderNext ==
    \/ Discover
    \/ OrderFunctions

SpecOrder == Init /\ [][OrderNext]_vars

\* the place of a key in dependency_vec
place(key) == CHOOSE i \in 1..Len(cur.dependency_vec) : cur.dependency_vec[i] = key

\* dependency_vec holds every discovered function exactly once
ordered_once ==
    /\ Len(cur.dependency_vec) = Len(cur.func_components)
    /\ \A i \in 1..Len(cur.func_components) :
          \E j \in 1..Len(cur.dependency_vec) :
              cur.dependency_vec[j] = cur.func_components[i].k

\* C15 (as stated): in dependency_vec every dependency of a function F stands
\* earlier than F, for every acyclic graph and every key order
C15_DependenciesEarlier ==
    pc = "ordered" =>
        /\ ordered_once
        /\ \A i \in 1..Len(cur.func_components) :
              \A j \in 1..Len(cur.func_components[i].v.dependencies) :
                  place(cur.func_components[i].v.dependencies[j])
                      < place(cur.func_components[i].k)

\* C15 (amended): dependency_vec holds every discovered function once, and
\* every dependency of a function F stands later than F: the loop over
\* dependency_vec meets a function before the functions it depends on
C15_DependenciesLater ==
    pc = "ordered" =>
        /\ ordered_once
        /\ \A i \in 1..Len(cur.func_components) :
              \A j \in 1..Len(cur.func_components[i].v.dependencies) :
                  place(cur.func_components[i].v.dependencies[j])
                      > place(cur.func_components[i].k)

\* three functions have been ordered of which one depends on the two others
\* and one of those on the other, so that a key was met twice
C15_SharedDependencyOrdered ==
    /\ pc = "ordered"
    /\ \E i, j \in 1..Len(cur.func_components) :
          /\ Len(cur.func_components[i].v.dependencies) = 2
          /\ cur.func_components[i].v.dependencies[1] = cur.func_components[j].k
          /\ Len(cur.func_components[j].v.dependencies) = 1

----------------------------------------------------------------------------
(* The recursive flag of FuncComponents *)

\* the lowered body of the function installed for key references key
references_itself(key, comp) == var_positions(comp.ir, key) # {}

\* C16: the FuncComponents installed for a key has recursive = TRUE if and
\* only if its lowered body holds a Var that references the same key (module,
\* function name and variant); the key of a recursive function is not among
\* its own dependencies, and a body without such a Var has recursive = FALSE
C16_RecursiveIffSelfReference ==
    planned =>
        \A i \in 1..Len(discovered) :
            /\ discovered[i].v.recursive
                  <=> references_itself(discovered[i].k, discovered[i].v)
            /\ discovered[i].v.recursive =>
                  \A j \in 1..Len(discovered[i].v.dependencies) :
                      discovered[i].v.dependencies[j] # discovered[i].k

\* a function whose body calls itself has been installed next to one that
\* depends on it without calling itself
C16_RecursiveInstalled ==
    /\ planned
    /\ \E i, j \in 1..Len(discovered) :
          /\ discovered[i].v.recursive
          /\ references_itself(discovered[i].k, discovered[i].v)
          /\ ~discovered[j].v.recursive
          /\ \E d \in 1..Len(discovered[j].v.dependencies) :
                discovered[j].v.dependencies[d] = discovered[i].k

----------------------------------------------------------------------------
(* The scopes of the final AIR *)

\* the scope of an instruction starts at the root id of the call in progress
rooted(instruction) ==
    /\ instruction.scope # <<>>
    /\ instruction.scope[1] = cur.id0

\* C17: every instruction of the final AIR, of the main body, of a spliced
\* function body or a DefineFunc the planner inserted, carries a nonempty
\* scope whose first element is the root id drawn at the entry of generate()
C17_ScopesRooted ==
    planned => \A i \in 1..Len(final_air) : rooted(final_air[i])

\* the second call of a generator, whose root id is not the first id, has
\* left a DefineFunc and the body of the function behind it in the final AIR
C17_DefinedUnderLaterRoot ==
    /\ planned
    /\ cur.id0 > 0
    /\ \E i \in 1..Len(final_air) :
          /\ final_air[i].air = "DefineFunc"
          /\ i < Len(final_air)
          /\ Len(final_air[i + 1].scope) > 1

----------------------------------------------------------------------------
(* Monomorphization seen from two generate() calls *)

\* the bodies that call the polymorphic function id at the type Int
GenericBodies == {"generic", "generic_twice"}

\* build_ir and define_ir for a body on a fresh generator whose id generator
\* stands at id
plan_from(body, id) ==
    plan(Input(body, <<>>, FALSE, "ascending"),
         [id |-> id, nfa |-> FALSE, defined |-> {}, zero |-> EmptyFn])

\* an AIR without the scopes of its instructions
unscoped(air) == [i \in 1..Len(air) |-> [air[i] EXCEPT !.scope = <<>>]]

\* the Var instructions of air that reference a polymorphic function
polymorphic_vars(air) ==
    {i \in 1..Len(air) :
        /\ is_module_fn_var(air[i])
        /\ \E j \in 1..Len(functions(air[i].constructor.module,
                                      air[i].constructor.name).arguments) :
              is_generic(functions(air[i].constructor.module,
                                   air[i].constructor.name).arguments[j].tipo)}

\* two call sites of the same function at the same concrete type
same_instance(a, b) ==
    /\ a.constructor.module = b.constructor.module
    /\ a.constructor.name = b.constructor.name
    /\ a.constructor.tipo = b.constructor.tipo

\* the call sites of here and there agree on the variant of every instance
same_variants(here, there) ==
    \A i \in polymorphic_vars(here.ir) : \A j \in polymorphic_vars(there.ir) :
        same_instance(here.ir[i], there.ir[j])
            => /\ here.ir[i].variant_name = there.ir[j].variant_name
               /\ here.ir[i].variant_name # ""
               /\ MapHas(here.fc, key_of_var(here.ir[i]))
               /\ MapHas(there.fc, key_of_var(there.ir[j]))

\* the keys of variants that both plans have installed
installed_in_both(here, there) ==
    {here.fc[i].k : i \in {j \in 1..Len(here.fc) :
                              /\ here.fc[j].k.variant_name # ""
                              /\ MapHas(there.fc, here.fc[j].k)}}

----------------------------------------------------------------------------
(* `when` over list patterns *)

\* the call in progress matches a list against list patterns
list_when ==
    /\ Bodies[cur.input.body].expr = "When"
    /\ is_list_pattern(Bodies[cur.input.body].clauses[1])

subject_values ==
    [i \in 1..Len(Bodies[cur.input.body].subject.elements) |->
        Bodies[cur.input.body].subject.elements[i].value]

RECURSIVE then_value(_, _)
\* the value of the body of a clause whose pattern binds names to the
\* elements of the subject at the same positions
then_value(then, names) ==
    CASE then.expr = "Int" -> then.value
      [] then.expr = "Var" ->
            subject_values[CHOOSE i \in 1..Len(names) : names[i] = then.name]
      [] then.expr = "BinOp" ->
            then_value(then.left, names) - then_value(then.right, names)

\* the clauses, in source order, whose pattern has exactly n elements and no
\* tail
clauses_of_length(clauses, n) ==
    {i \in 1..Len(clauses) :
        /\ is_list_pattern(clauses[i])
        /\ clauses[i].pattern.tail = <<>>
        /\ Len(clauses[i].pattern.elements) = n}

\* the clause lengths before the final clause are 0, 1, 2, ... without a gap
consecutive_lengths(clauses) ==
    \A i \in 1..Len(clauses) :
        is_list_pattern(clauses[i]) =>
            \A n \in 0..Len(clauses[i].pattern.elements) :
                clauses_of_length(clauses, n) # {}

\* the value the `when` has when the clause of the subject's length, or else
\* the final clause, is selected and its variables are bound by position
selected_value ==
    LET clauses == Bodies[cur.input.body].clauses
        fitting == clauses_of_length(clauses, Len(subject_values))
        first == CHOOSE i \in fitting : \A j \in fitting : i <= j
    IN IF fitting = {} THEN then_value(Last(clauses).then, <<>>)
       ELSE then_value(clauses[first].then,
                       pattern_names(clauses[first].pattern.elements))

\* the value of the program generate() returned
program_value == eval(program.term, <<>>, MaxEvalSteps)

\* C19: in a `when` over list patterns a clause whose pattern has exactly n
\* elements and no tail is selected exactly for the subject lists of length n,
\* with every pattern variable bound to the element at its position, also
\* when the lengths of the clauses are not consecutive
C19_ClauseOfLengthSelected ==
    pc = "done" /\ list_when =>
        program_value = VCon(Integer(selected_value))

\* the same for clauses whose lengths are consecutive from the empty list
C19_ConsecutiveLengthsSelected ==
    pc = "done" /\ list_when
      /\ consecutive_lengths(Bodies[cur.input.body].clauses) =>
        program_value = VCon(Integer(selected_value))

\* a list of two elements has been matched against clauses given in another
\* order than that of their lengths, and the clause [a, b] has run
C19_TwoElementsMatched ==
    /\ pc = "done"
    /\ cur.input.body = "when_list_unsorted_2"
    /\ program_value = VCon(Integer(4))

----------------------------------------------------------------------------
(* when_ir on constructor patterns, on its own *)

\* the patterns an argument of a constructor pattern is drawn from
FieldPatterns(name) == {PVar(name), PDiscard}

TriplePattern(first, second, third) ==
    PConstructor("Triple",
                 <<CallArg("", first), CallArg("", second), CallArg("", third)>>,
                 FALSE, <<>>, TFn(<<TInt, TInt, TInt>>, TShape))

MixedPattern(first, second) ==
    PConstructor("Mixed", <<CallArg("", first), CallArg("", second)>>,
                 FALSE, <<>>, TFn(<<TInt, TInt>>, TShape))

UserPattern(first, second) ==
    PConstructor("User", <<CallArg("uid", first), CallArg("name", second)>>,
                 TRUE, <<"uid", "name">>, TFn(<<TInt, TInt>>, TUser))

\* constructor patterns of the data types with one and with several
\* constructors, with and without fields
ConstructorPatterns ==
    {PointPattern(f, s) : f \in FieldPatterns("a"), s \in FieldPatterns("b")}
    \cup {BoxPattern(f, s) : f \in FieldPatterns("a"), s \in FieldPatterns("b")}
    \cup {UserPattern(f, s) : f \in FieldPatterns("a"), s \in FieldPatterns("b")}
    \cup {MixedPattern(f, s) : f \in FieldPatterns("a"), s \in FieldPatterns("b")}
    \cup {TriplePattern(f, s, t) : f \in FieldPatterns("a"),
                                   s \in FieldPatterns("b"),
                                   t \in FieldPatterns("c")}
    \cup {SomePattern(v) : v \in FieldPatterns("a")}
    \cup {NullaryPattern("None", TOpt), NullaryPattern("A", TBool2),
          NullaryPattern("B", TBool2)}

\* the type of the subject a constructor pattern is matched against
subject_type_of(pattern) ==
    IF is_fn(pattern.tipo) THEN pattern.tipo[3] ELSE pattern.tipo

\* the scopes of the clause and the instructions of its body
ClauseScopes == {<<0>>, <<0, 3>>, <<0, 3, 4>>}
ClauseValues(scope) == {<<>>, <<AirInt(scope, 1)>>}

\* handle_each_clause has lowered the body of a clause into values and calls
\* when_ir on the pattern of the clause
LowerPattern ==
    /\ pc = "idle"
    /\ pc' = "lowered"
    /\ \E pattern \in ConstructorPatterns : \E scope \in ClauseScopes :
          \E values \in ClauseValues(scope) :
              /\ final_air' =
                     when_ir(pattern, values, subject_type_of(pattern),
                             ClausePropertiesInit(subject_type_of(pattern),
                                                  "__constr_name_1",
                                                  "__subject_name_0"),
                             scope).ir
              /\ cur' = [input |-> NoInput, id0 |-> id_gen,
                         pattern |-> pattern, values |-> values,
                         scope |-> scope]
    /\ UNCHANGED <<id_gen, defined_functions, zero_arg_functions,
                   needs_field_access, ir_stack, arg_stack, program, calls,
                   last_step, wrappers>>

PatternNext == LowerPattern

SpecPattern == Init /\ [][PatternNext]_vars

\* what when_ir has put in front of the values of the clause
emitted == SubSeq(final_air, 1, Len(final_air) - Len(cur.values))

\* the positions of the Int instructions among them
test_values == {i \in 1..Len(emitted) : emitted[i].air = "Int"}

\* the constructors of the data type of the pattern lowered
constructors_of_pattern == data_type_of(subject_type_of(cur.pattern))

\* C20: when_ir on a constructor pattern emits an Int instruction with the
\* position of the constructor in the constructor list of its data type if
\* and only if the data type has more than one constructor; for a data type
\* with one constructor no test value is emitted
C20_TestValueIffSeveralConstructors ==
    pc = "lowered" =>
        /\ SubSeq(final_air, Len(emitted) + 1, Len(final_air)) = cur.values
        /\ test_values # {} <=> Len(constructors_of_pattern) > 1
        /\ test_values # {} =>
              /\ test_values = {1}
              /\ emitted[1].scope = cur.scope
              /\ constructors_of_pattern[emitted[1].value + 1].name
                    = cur.pattern.name

\* the pattern of the second constructor of a data type with two, binding a
\* field, has been lowered in front of the body of its clause
C20_SecondConstructorLowered ==
    /\ pc = "lowered"
    /\ cur.pattern.name = "Mixed"
    /\ cur.values # <<>>
    /\ Len(emitted) = 3
    /\ emitted[1].air = "Int"
    /\ emitted[1].value = 1
    /\ emitted[2].air = "FieldsExpose"

\* the pattern of the only constructor of a data type has been lowered: the
\* instructions of the body follow those that expose its fields
C20_SingleConstructorLowered ==
    /\ pc = "lowered"
    /\ cur.pattern.name = "Point"
    /\ cur.values # <<>>
    /\ emitted # <<>>
    /\ emitted[1].air = "FieldsExpose"

----------------------------------------------------------------------------
(* The scopes build_ir gives to the children of an expression *)

\* the sub-expressions of an expression that build_ir lowers one by one
children(e) ==
    CASE e.expr = "Sequence" -> e.expressions
      [] e.expr = "Call" -> <<e.fun>> \o e.args
      [] e.expr = "BinOp" -> <<e.left, e.right>>
      [] e.expr = "List" -> e.elements \o e.tail
      [] e.expr = "Tuple" -> e.elems
      [] e.expr = "Fn" -> <<e.body>>
      [] e.expr = "If" ->
            Concat([i \in 1..Len(e.branches) |->
                      <<e.branches[i].condition, e.branches[i].body>>])
              \o <<e.final_else>>
      [] OTHER -> <<>>

\* the number of instructions build_ir emits for an expression
air_len(e) == Len(build_ir(e, <<>>, 0, FALSE).ir)

RECURSIVE air_len_sum(_)
air_len_sum(exprs) ==
    IF exprs = <<>> THEN 0
    ELSE air_len(Head(exprs)) + air_len_sum(Tail(exprs))

\* the instructions of the expression itself in front of its k-th child
heads_before(e, k) ==
    CASE e.expr = "Sequence" -> 0
      [] e.expr = "If" ->
            IF k > 2 * Len(e.branches) THEN Len(e.branches)
            ELSE (k + 1) \div 2
      [] OTHER -> 1

\* the instructions of the k-th child within the instructions of e
child_air(e, air, k) ==
    LET from == heads_before(e, k) + air_len_sum(SubSeq(children(e), 1, k - 1))
    IN SubSeq(air, from + 1, from + air_len(children(e)[k]))

\* the scope of the parent and of each child, for e and for every expression
\* below it; the scope of a child is that of its first instruction
RECURSIVE scope_families(_, _, _)
scope_families(e, scope, air) ==
    IF children(e) = <<>> THEN {}
    ELSE {[kind |-> e.expr, parent |-> scope,
           children |-> [k \in 1..Len(children(e)) |->
                           child_air(e, air, k)[1].scope]]}
         \cup UNION {scope_families(children(e)[k],
                                    child_air(e, air, k)[1].scope,
                                    child_air(e, air, k)) :
                       k \in 1..Len(children(e))}

\* the families of the body of the current generate() call
families ==
    scope_families(Bodies[cur.input.body], <<cur.id0>>,
                   build_ir(Bodies[cur.input.body], <<cur.id0>>,
                            cur.id0 + 1, FALSE).ir)

\* child is parent with one id of this generate() call appended
fresh_child_scope(parent, child) ==
    /\ Len(child) = Len(parent) + 1
    /\ IsPrefix(parent, child)
    /\ Last(child) > cur.id0
    /\ Last(child) < id_gen

\* C21: for every expression build_ir lowers with sub-expressions (Sequence,
\* Pipeline, Call, BinOp, List, Tuple, If, Fn) the first child is lowered with
\* the scope of the parent, every other child with that scope extended by one
\* fresh id, and no two sibling sub-expressions share a scope
C21_SiblingScopes ==
    planned =>
        \A fam \in families :
            /\ fam.children[1] = fam.parent
            /\ \A k \in 2..Len(fam.children) :
                  fresh_child_scope(fam.parent, fam.children[k])
            /\ \A j, k \in 1..Len(fam.children) :
                  j # k => fam.children[j] # fam.children[k]

\* the first half of C21 for a Sequence alone, where the code does it
C21_SequenceScopes ==
    planned =>
        \A fam \in families :
            fam.kind = "Sequence" =>
                /\ fam.children[1] = fam.parent
                /\ \A k \in 2..Len(fam.children) :
                      fresh_child_scope(fam.parent, fam.children[k])

\* outside a Sequence every child, the first one included, is lowered with
\* its own extension of the scope of the parent
C21_EveryChildExtended ==
    planned =>
        \A fam \in families :
            fam.kind # "Sequence" =>
                \A k \in 1..Len(fam.children) :
                    fresh_child_scope(fam.parent, fam.children[k])

\* sibling scopes differ whenever the parent is no If
C21_SiblingsDistinctOutsideIf ==
    planned =>
        \A fam \in families :
            fam.kind # "If" =>
                \A j, k \in 1..Len(fam.children) :
                    j # k => fam.children[j] # fam.children[k]

\* the condition and the body of a branch of an If have one scope
C21_BranchSharesScope ==
    planned =>
        \A fam \in families :
            fam.kind = "If" =>
                \A i \in 1..((Len(fam.children) - 1) \div 2) :
                    fam.children[2 * i - 1] = fam.children[2 * i]

----------------------------------------------------------------------------
(* The instructions build_ir emits for a When *)

\* the body of the current generate() call and its instructions before
\* define_ir
body_lowered ==
    build_ir(Bodies[cur.input.body], <<cur.id0>>, cur.id0 + 1, FALSE).ir

when_lowered == planned /\ Bodies[cur.input.body].expr = "When"

\* the names build_ir makes for a When that is the whole body
when_subject_name == "__subject_name_" \o ToString(cur.id0 + 1)
when_constr_var == "__constr_name_" \o ToString(cur.id0 + 2)

\* the position of the When instruction of the body
when_at ==
    CHOOSE i \in 1..Len(body_lowered) :
        /\ body_lowered[i].air = "When"
        /\ body_lowered[i].subject_name = when_subject_name

\* the position of the first instruction of the clauses
first_clause_at ==
    CHOOSE i \in 1..Len(body_lowered) :
        /\ body_lowered[i].air
              \in {"Clause", "ListClause", "TupleClause", "Finally"}
        /\ \A j \in 1..(i - 1) :
              body_lowered[j].air
                 \notin {"Clause", "ListClause", "TupleClause", "Finally"}

\* the instructions of the subject, lowered on its own
subject_air ==
    unscoped(build_ir(Bodies[cur.input.body].subject, <<>>, 0, FALSE).ir)

\* some clause has a constructor pattern that binds or destructures a field
clause_needs_constr_var ==
    \E i \in 1..Len(Bodies[cur.input.body].clauses) :
        LET pattern == Bodies[cur.input.body].clauses[i].pattern
        IN /\ pattern.pat = "Constructor"
           /\ \E a \in 1..Len(pattern.arguments) :
                 pattern.arguments[a].value.pat
                    \in {"Var", "List", "Constructor", "Tuple"}

is_constr_lam(instruction) ==
    instruction.air = "Lam" /\ instruction.name = when_constr_var

\* the instructions from position a to position b, scopes left out
part(a, b) == unscoped(SubSeq(body_lowered, a, b))

\* C22 as stated: the When instruction is preceded by Lam{constr_var} and
\* the instructions of the subject when a clause needs the constructor
\* binding and by the instructions of the subject alone otherwise; the
\* instructions of the clauses come after the When instruction
C22_SubjectBeforeWhen ==
    when_lowered =>
        /\ IF clause_needs_constr_var
           THEN /\ is_constr_lam(body_lowered[1])
                /\ part(2, when_at - 1) = subject_air
           ELSE part(1, when_at - 1) = subject_air
        /\ first_clause_at > when_at

\* C22: when a clause needs the constructor binding the instructions are
\* Lam{constr_var}, the subject, When, a Var of constr_var and the clauses;
\* otherwise the When instruction comes first and is followed by the subject
\* and then the clauses
C22_WhenLayout ==
    when_lowered =>
        IF clause_needs_constr_var
        THEN /\ is_constr_lam(body_lowered[1])
             /\ part(2, when_at - 1) = subject_air
             /\ when_at = Len(subject_air) + 2
             /\ body_lowered[when_at + 1].air = "Var"
             /\ body_lowered[when_at + 1].name = when_constr_var
             /\ first_clause_at = when_at + 2
        ELSE /\ when_at = 1
             /\ part(2, Len(subject_air) + 1) = subject_air
             /\ first_clause_at = Len(subject_air) + 2

\* a When whose clauses need no constructor binding has been lowered, its
\* subject a call
C22_WhenBeforeSubject ==
    /\ when_lowered
    /\ ~clause_needs_constr_var
    /\ Len(subject_air) > 1
    /\ body_lowered[1].air = "When"
    /\ body_lowered[2].air = "Call"

\* a When with a clause that binds a constructor field has been lowered
C22_WhenAfterSubject ==
    /\ when_lowered
    /\ clause_needs_constr_var
    /\ body_lowered[1].air = "Lam"
    /\ when_at > 2

----------------------------------------------------------------------------
(* The clauses of a When over a tuple subject *)

\* the largest tuple whose clauses are lowered
MaxTuple == 3

\* the tuple type with n integer elements and a subject of that type
TupleOfInts(n) == TTuple([i \in 1..n |-> TInt])
TupleSubject(n) == ETuple([i \in 1..n |-> EInt(i)], TupleOfInts(n))

\* the tuple patterns of n variables or discards; the variable of clause c
\* at position k is v_c_k
TuplePatterns(c, n) ==
    {PTuple([k \in 1..n |->
               IF binds[k]
               THEN PVar("v_" \o ToString(c) \o "_" \o ToString(k - 1))
               ELSE PDiscard]) : binds \in [1..n -> BOOLEAN]}

\* three clauses over a tuple of n elements: two tuple patterns and a last
\* clause that is a tuple pattern or a discard
TupleClauses(n) ==
    {<<ClauseOf(p1, EInt(10)), ClauseOf(p2, EInt(20)), ClauseOf(p3, EInt(30))>> :
        p1 \in TuplePatterns(1, n), p2 \in TuplePatterns(2, n),
        p3 \in TuplePatterns(3, n) \cup {PDiscard}}

\* build_ir on a When over a tuple subject
LowerTupleClauses ==
    /\ pc = "idle"
    /\ pc' = "tuple_lowered"
    /\ \E n \in 2..MaxTuple : \E clauses \in TupleClauses(n) :
          /\ final_air' =
                 build_ir(EWhen(TupleSubject(n), TupleOfInts(n), clauses),
                          <<id_gen>>, id_gen + 1, FALSE).ir
          /\ cur' = [input |-> NoInput, id0 |-> id_gen, clauses |-> clauses,
                     count |-> n]
    /\ UNCHANGED <<id_gen, defined_functions, zero_arg_functions,
                   needs_field_access, ir_stack, arg_stack, program, calls,
                   last_step, wrappers>>

TupleNext == LowerTupleClauses

SpecTuple == Init /\ [][TupleNext]_vars

\* the positions in final_air of the instructions that head the clauses
clause_heads ==
    SelectSeq([i \in 1..Len(final_air) |-> i],
              LAMBDA i : final_air[i].air \in {"TupleClause", "Finally"})

\* the (index, name) pairs the TupleClause instructions before clause j bind
bound_before(j) ==
    UNION {final_air[clause_heads[i]].indices : i \in 1..(j - 1)}

positions_of(pairs) == {p[1] : p \in pairs}

\* the positions, in pattern order, that clause j names and that are bound
\* before it
renamed_positions(j) ==
    SelectSeq([k \in 1..cur.count |-> k - 1],
              LAMBDA index :
                  /\ cur.clauses[j].pattern.pat = "Tuple"
                  /\ index \in positions_of(bound_before(j)))

\* the Lam and the Var of the m-th alias of clause j
alias_lam(j, m) == final_air[clause_heads[j] + 2 * m - 1]
alias_var(j, m) == final_air[clause_heads[j] + 2 * m]

\* the name clause j gives to a position
name_in_clause(j, index) ==
    nested_pattern_ir_and_label(cur.clauses[j].pattern.elems[index + 1]).name

\* every index is bound by the indices of at most one TupleClause
indices_bound_once ==
    \A i, j \in 1..2 :
        i # j => positions_of(final_air[clause_heads[i]].indices)
                   \cap positions_of(final_air[clause_heads[j]].indices) = {}

\* predefined_indices is the union of the indices of the earlier clauses
predefined_is_union ==
    \A j \in 1..2 :
        final_air[clause_heads[j]].predefined_indices = bound_before(j)

\* a clause that names a bound index gets Lam{its name}, Var{a bound name}
aliases_emitted ==
    \A j \in 2..3 : \A m \in 1..Len(renamed_positions(j)) :
        /\ alias_lam(j, m).air = "Lam"
        /\ alias_lam(j, m).name = name_in_clause(j, renamed_positions(j)[m])
        /\ alias_var(j, m).air = "Var"
        /\ \E p \in bound_before(j) :
              /\ p[1] = renamed_positions(j)[m]
              /\ p[2] = alias_var(j, m).name

\* the variable of an alias is bound to the position renamed and to no other
aliases_same_position ==
    \A j \in 2..3 : \A m \in 1..Len(renamed_positions(j)) :
        {p[1] : p \in {q \in bound_before(j) : q[2] = alias_var(j, m).name}}
            = {renamed_positions(j)[m]}

\* C23: across the clauses of a When over a tuple every index is bound by
\* the indices of at most one TupleClause, predefined_indices is the union
\* of the indices of the earlier clauses, and a later clause naming a bound
\* index gets a Lam and a Var that bind its name to the value at that same
\* position, also when earlier clauses discarded one or several positions
C23_TupleIndices ==
    pc = "tuple_lowered" =>
        /\ Len(clause_heads) = 3
        /\ indices_bound_once
        /\ predefined_is_union
        /\ aliases_emitted
        /\ aliases_same_position

\* C23 without the claim on the value an alias is bound to
C23_IndicesAndAliases ==
    pc = "tuple_lowered" =>
        /\ Len(clause_heads) = 3
        /\ indices_bound_once
        /\ predefined_is_union
        /\ aliases_emitted

\* the names that earlier clauses gave to several positions
shared_names(j) ==
    {p[2] : p \in {q \in bound_before(j) :
                      \E r \in bound_before(j) : r[2] = q[2] /\ r[1] # q[1]}}

\* an alias is bound to its own position unless earlier clauses discarded
\* several positions, which are then all bound to the name "_"
C23_AliasUnlessSeveralDiscards ==
    pc = "tuple_lowered" =>
        \A j \in 2..3 :
            /\ shared_names(j) \subseteq {"_"}
            /\ shared_names(j) = {} =>
                  \A m \in 1..Len(renamed_positions(j)) :
                      {p[1] : p \in {q \in bound_before(j) :
                                        q[2] = alias_var(j, m).name}}
                          = {renamed_positions(j)[m]}

----------------------------------------------------------------------------
(* The value of the term of a clause *)

\* a clause step has run and left its term as the program
clause_synthesized ==
    /\ pc = "done"
    /\ cur.step.ir.air \in {"Clause", "ListClause", "TupleClause"}

\* the value of the term of the clause for a subject
clause_value(subject) ==
    eval(TermApply(TermLambda(ClauseSubject, program.term),
                   TermConstant(subject)),
         <<>>, MaxEvalSteps)

\* the subjects the clause of the step is tried on
clause_subjects ==
    IF cur.step.ir.air = "TupleClause" THEN {ProtoPair(DataI(1), DataI(2))}
    ELSE Values(cur.step.ir.tipo)

\* the test of the clause succeeds for the subject: Clause compares it with
\* the test value, ListClause asks whether the list is empty, TupleClause
\* tests nothing
test_succeeds(subject) ==
    CASE cur.step.ir.air = "Clause" -> subject = cur.step.operands[1][2]
      [] cur.step.ir.air = "ListClause" -> subject = ProtoList(<<>>)
      [] OTHER -> TRUE

\* the value of the body of the clause
body_value ==
    CASE cur.step.ir.air # "TupleClause" -> VCon(Integer(10))
      [] cur.step.operands[1] = ClauseBody -> VCon(Integer(10))
      [] cur.step.operands[1] = TermVar("b") -> VCon(Integer(2))
      [] OTHER -> VCon(Integer(20))

\* the term gives the value of the body when the test succeeds and that of
\* the next alternative otherwise
clause_selects ==
    \A subject \in clause_subjects :
        clause_value(subject) = IF test_succeeds(subject) THEN body_value
                                ELSE VCon(Integer(20))

\* C24: the term of a complex Clause, ListClause or TupleClause evaluates to
\* the value of the body of the clause when the test succeeds and to the
\* value of the next alternative otherwise
C24_ComplexClauseSelects ==
    clause_synthesized /\ cur.step.ir.complex_clause => clause_selects

\* the same for a complex ListClause and TupleClause alone
C24_ComplexListAndTupleClauseSelect ==
    /\ clause_synthesized
    /\ cur.step.ir.complex_clause
    /\ cur.step.ir.air # "Clause"
    => clause_selects

\* the same for the clauses that are not complex
C24_SimpleClauseSelects ==
    clause_synthesized /\ ~cur.step.ir.complex_clause => clause_selects

\* the term of a complex Clause fails for every subject
C24_ComplexClauseFails ==
    /\ clause_synthesized
    /\ cur.step.ir.complex_clause
    /\ cur.step.ir.air = "Clause"
    => \A subject \in clause_subjects : clause_value(subject) = Fail

\* the term of a complex Clause without its outermost Force selects
C24_ComplexClauseSelectsUnforced ==
    /\ clause_synthesized
    /\ cur.step.ir.complex_clause
    /\ cur.step.ir.air = "Clause"
    => /\ program.term[1] = "Force"
       /\ \A subject \in clause_subjects :
             eval(TermApply(TermLambda(ClauseSubject, program.term[2]),
                            TermConstant(subject)),
                  <<>>, MaxEvalSteps)
                = IF test_succeeds(subject) THEN VCon(Integer(10))
                  ELSE VCon(Integer(20))

----------------------------------------------------------------------------
(* The term of a call f(a1, ..., an) *)

\* the largest number of arguments of the calls lowered
MaxArgs == 3

\* the callee: a function held by a local variable, of n integer parameters
Callee(n) == Local("g", TFn([i \in 1..n |-> TInt], TInt))

\* the arguments tried: constants, a variable and a call
CallArguments ==
    {EInt(1), EInt(2), Local("x", TInt),
     ECall(Local("h", TFn(<<TInt>>, TInt)), <<EInt(3)>>)}

\* generate() up to uplc_code_gen on the call g(a1, ..., an)
LowerCall ==
    /\ pc = "idle"
    /\ pc' = "synth"
    /\ \E n \in 1..MaxArgs : \E args \in [1..n -> CallArguments] :
          /\ ir_stack' = build_ir(ECall(Callee(n), args), <<id_gen>>,
                                  id_gen + 1, FALSE).ir
          /\ cur' = [input |-> NoInput, id0 |-> id_gen, args |-> args]
    /\ final_air' = ir_stack'
    /\ arg_stack' = <<>>
    /\ UNCHANGED <<id_gen, defined_functions, zero_arg_functions,
                   needs_field_access, program, calls, last_step, wrappers>>

CallNext ==
    \/ LowerCall
    \/ GenUplcStep
    \/ Finish

SpecCall == Init /\ [][CallNext]_vars

\* the term of an argument, read off the expression
RECURSIVE source_term(_)
source_term(e) ==
    CASE e.expr = "Int" -> TermConstant(Integer(e.value))
      [] e.expr = "Var" -> TermVar(e.name)
      [] e.expr = "Call" ->
            TermApply(source_term(e.fun), source_term(e.args[1]))

\* Apply(...Apply(Apply(F, A1), A2)..., An)
RECURSIVE left_fold(_, _)
left_fold(F, A) ==
    IF A = <<>> THEN F ELSE TermApply(left_fold(F, Front(A)), Last(A))

call_synthesized == pc = "done" /\ "args" \in DOMAIN cur

\* C25: the term of a Call with count n >= 1 lowered from f(a1, ..., an) is
\* the left fold Apply(...Apply(Apply(F, A1), A2)..., An) of the term of the
\* callee over the terms of the arguments in source order, for every n
C25_CallIsLeftFold ==
    call_synthesized =>
        program.term
          = left_fold(TermVar("g"),
                      [i \in 1..Len(cur.args) |-> source_term(cur.args[i])])

\* a call of three arguments that differ, one of them a call, is synthesized
C25_ThreeArgumentsApplied ==
    /\ call_synthesized
    /\ Len(cur.args) = 3
    /\ cur.args[1] = EInt(1)
    /\ cur.args[2].expr = "Call"
    /\ cur.args[3].expr = "Var"
    /\ program.term[1] = "Apply"
    /\ program.term[3] = TermVar("x")

----------------------------------------------------------------------------
(* The conversions of a positional constructor *)

\* a positional constructor with two fields or more has been applied
positional_constructed ==
    /\ pc = "constructed"
    /\ ~cur.input.constructor.has_field_map
    /\ Len(cur.input.xs) >= 2

field_types == arg_types(cur.input.constructor.tipo)

\* C26: the term of a positional constructor with n >= 2 fields converts the
\* i-th applied argument to data with the declared type of the i-th field,
\* for every i, also when the field types differ
C26_ConvertedByOwnType ==
    positional_constructed => arg_stack = <<expected_constr>>

\* the same for the positional constructors whose fields have one type
C26_ConvertedByOwnTypeUniform ==
    /\ positional_constructed
    /\ \A i \in 1..Len(field_types) : field_types[i] = field_types[1]
    => arg_stack = <<expected_constr>>

\* the arguments whose i-th value has the type of field n + 1 - i
mirrored_vectors ==
    {ys \in [1..Len(field_types) ->
               UNION {FieldValues(field_types[i]) :
                        i \in 1..Len(field_types)}] :
        \A i \in 1..Len(field_types) :
            ys[i] \in FieldValues(field_types[Len(field_types) + 1 - i])}

\* the i-th applied argument lands at list position i and is converted with
\* the type of field n + 1 - i
C26_ConvertedByMirroredType ==
    positional_constructed =>
        \A ys \in mirrored_vectors :
            result_of(apply_all(record_constructor_term(cur.input.constructor),
                                ys))
              = TermConstant(Data(
                    <<"Constr",
                      constr_index_of(data_type_of(cur.input.constructor.tipo),
                                      cur.input.constructor.name),
                      [i \in 1..Len(ys) |->
                          to_data(ys[i],
                                  field_types[Len(field_types) + 1 - i])]>>))

----------------------------------------------------------------------------
(* The names of module functions in the synthesized term *)

\* generate() on the bodies that call a function of another module
NamingInputs ==
    {Input(b, <<>>, FALSE, "ascending") : b \in NamingBodies \cup {"call"}}

NamingNext ==
    \/ \E input \in NamingInputs : Generate(input)
    \/ GenUplcStep
    \/ Finish

SpecNaming == Init /\ [][NamingNext]_vars

\* the Var instructions of final_air that reference the function that the
\* instruction at position i defines
vars_of_define(i) ==
    {j \in 1..Len(final_air) :
        /\ is_module_fn_var(final_air[j])
        /\ key_of_var(final_air[j]) = key_of_define(final_air[i])}

defines == {i \in 1..Len(final_air) : final_air[i].air = "DefineFunc"}

\* C27: the name a DefineFunc binds for a key (module, name, variant) is the
\* name synthesized for every Var that references that key, for a function
\* with and without module name and for a Var from a module select
C27_DefineNameIsVarName ==
    planned =>
        \A i \in defines : \A j \in vars_of_define(i) :
            define_func_name(final_air[i]) = module_fn_var_name(final_air[j])

\* define_ir leaves every Var of a module function with the name of the
\* function, whatever name the expression used
C27_PlannerRewritesName ==
    planned =>
        \A j \in 1..Len(final_air) :
            is_module_fn_var(final_air[j]) =>
                final_air[j].name = final_air[j].constructor.name

\* a function of lib used under another name has been planned
C27_RenamedPlanned ==
    /\ planned
    /\ cur.input.body = "call_renamed"
    /\ \E i \in defines : \E j \in vars_of_define(i) :
          /\ final_air[i].module_name = "lib"
          /\ module_fn_var_name(final_air[j]) = "lib_inc"

\* a function of the module, one of lib by its name and one selected from
\* lib are defined and referenced in one program
C27_ThreeWaysToName ==
    /\ planned
    /\ cur.input.body = "call_all"
    /\ Cardinality(defines) = 2
    /\ \E i \in defines : Cardinality(vars_of_define(i)) = 2

----------------------------------------------------------------------------
(* The ordering loop of define_ir, one iteration at a time *)

\* the longest func_keys the loop is followed to
MaxPending == 8

LoopNames == <<"f", "g", "k">>
LoopKeys == {FunctionAccessKey("", LoopNames[i], "") : i \in DOMAIN LoopNames}

\* the dependency graphs over keys, cyclic ones included: every function
\* depends on any arrangement of the other functions
GraphsOver(keys) ==
    {deps \in [keys -> Arrangements(keys)] :
        \A k \in keys : \A i \in 1..Len(deps[k]) : deps[k][i] # k}

\* func_components with its keys in the order key_order
components_of(key_order, deps) ==
    [i \in 1..Len(key_order) |->
        [k |-> key_order[i],
         v |-> FuncComponents(<<>>, deps[key_order[i]], FALSE, <<"x">>)]]

\* the dependencies of a function of func_components, as a set
depends_on(fc, key) ==
    {MapGet(fc, key).dependencies[i] :
        i \in 1..Len(MapGet(fc, key).dependencies)}

RECURSIVE reached_from(_, _, _)
\* the functions reached from keys along the dependencies
reached_from(fc, keys, seen) ==
    LET new == UNION {depends_on(fc, key) : key \in keys} \ seen
    IN IF new = {} THEN seen ELSE reached_from(fc, new, seen \cup new)

\* no function of func_components depends on itself through other functions
acyclic(fc) ==
    \A i \in 1..Len(fc) : fc[i].k \notin reached_from(fc, {fc[i].k}, {})

\* two functions of func_components depend on each other
mutually_dependent(fc) ==
    \E i, j \in 1..Len(fc) :
        /\ i # j
        /\ fc[j].k \in depends_on(fc, fc[i].k)
        /\ fc[i].k \in depends_on(fc, fc[j].k)

\* an iteration that pushes the dependencies without popping the function
order_step_keeping_function(func_keys, dependency_map, fc) ==
    LET function == Last(func_keys)
    IN [func_keys |-> func_keys \o MapGet(fc, function).dependencies,
        dependency_map |->
            Append(SelectSeq(dependency_map, LAMBDA k : k # function),
                   function)]

\* one iteration of the ordering loop: pop the function, move it to the end
\* of dependency_map, push its dependencies
order_step(func_keys, dependency_map, fc) ==
    LET function == Last(func_keys)
    IN [func_keys |-> Front(func_keys) \o MapGet(fc, function).dependencies,
        dependency_map |->
            Append(SelectSeq(dependency_map, LAMBDA k : k # function),
                   function)]

\* define_recurse_ir has returned func_components and the loop is entered:
\* func_keys holds the keys of func_components, dependency_map is empty
EnterOrdering ==
    /\ pc = "idle"
    /\ pc' = "ordering"
    /\ \E keys \in SUBSET LoopKeys \ {{}} :
          \E deps \in GraphsOver(keys) :
              \E key_order \in {o \in Arrangements(keys) :
                                   Len(o) = Cardinality(keys)} :
                  cur' = [input |-> NoInput, id0 |-> id_gen,
                          func_components |-> components_of(key_order, deps),
                          func_keys |-> key_order,
                          dependency_map |-> <<>>,
                          dependency_vec |-> <<>>]
    /\ UNCHANGED <<id_gen, defined_functions, zero_arg_functions,
                   needs_field_access, ir_stack, arg_stack, final_air,
                   program, calls, last_step, wrappers>>

\* while let Some(function) = func_keys.pop()
PopFunction ==
    /\ pc = "ordering"
    /\ cur.func_keys # <<>>
    /\ LET popped == order_step(cur.func_keys, cur.dependency_map,
                                cur.func_components)
       IN /\ Len(popped.func_keys) <= MaxPending
          /\ cur' = [cur EXCEPT !.func_keys = popped.func_keys,
                                !.dependency_map = popped.dependency_map]
    /\ UNCHANGED <<pc, id_gen, defined_functions, zero_arg_functions,
                   needs_field_access, ir_stack, arg_stack, final_air,
                   program, calls, last_step, wrappers>>

\* func_keys is empty: dependency_vec takes the keys of dependency_map
ExtendDependencyVec ==
    /\ pc = "ordering"
    /\ cur.func_keys = <<>>
    /\ pc' = "ordered"
    /\ cur' = [cur EXCEPT !.dependency_vec = cur.dependency_map]
    /\ UNCHANGED <<id_gen, defined_functions, zero_arg_functions,
                   needs_field_access, ir_stack, arg_stack, final_air,
                   program, calls, last_step, wrappers>>

LoopNext ==
    \/ EnterOrdering
    \/ PopFunction
    \/ ExtendDependencyVec

\* the loop is sequential code: an iteration that can run does run
SpecLoop ==
    /\ Init
    /\ [][LoopNext]_vars
    /\ WF_vars(PopFunction)
    /\ WF_vars(ExtendDependencyVec)

in_loop == pc \in {"ordering", "ordered"}

\* dependency_vec holds every key of func_components exactly once
each_function_once ==
    /\ Len(cur.dependency_vec) = Len(cur.func_components)
    /\ \A i \in 1..Len(cur.func_components) :
          \E j \in 1..Len(cur.dependency_vec) :
              cur.dependency_vec[j] = cur.func_components[i].k

\* C28: the ordering loop of define_ir terminates for every acyclic
\* dependency graph, on termination dependency_vec holds every discovered
\* function exactly once, and the loop does not terminate when two functions
\* depend on each other
C28_OrderingLoopTerminates ==
    /\ (pc = "ordering" /\ acyclic(cur.func_components)) ~> (pc = "ordered")
    /\ [](pc = "ordered" => each_function_once)
    /\ [](in_loop /\ mutually_dependent(cur.func_components)
             => pc # "ordered")

\* the loop has ordered three functions, one of them pushed more than once
C28_SharedDependencyOrdered ==
    /\ pc = "ordered"
    /\ Len(cur.dependency_vec) = Cardinality(LoopKeys)
    /\ \E i \in 1..Len(cur.func_components) :
          Len(cur.func_components[i].v.dependencies) > 1
    /\ \E i, j \in 1..Len(cur.func_components) :
          /\ i # j
          /\ depends_on(cur.func_components, cur.func_components[i].k)
               \cap depends_on(cur.func_components, cur.func_components[j].k)
               # {}

\* the loop is running over two functions that depend on each other
C28_MutualDependencyLoops ==
    /\ pc = "ordering"
    /\ mutually_dependent(cur.func_components)
    /\ Len(cur.dependency_map) = Len(cur.func_components)

\* the loop never ends over a graph with a cycle
C28_CyclicNeverOrdered ==
    pc = "ordered" => acyclic(cur.func_components)

\* the keys the loop leaves are those the ordering function computes
C28_LoopIsDependencyOrder ==
    pc = "ordered" =>
        cur.dependency_vec = dependency_order(MapKeys(cur.func_components),
                                              <<>>, cur.func_components)

\* over an acyclic graph func_keys stays below the length the loop is
\* followed to
C28_AcyclicWithinPending ==
    (pc = "ordering" /\ acyclic(cur.func_components))
        => Len(cur.func_keys) < MaxPending - 1

----------------------------------------------------------------------------
(* The new command: validate_name, package_name_from_str, create_project *)

\* the runs of new that are followed in one working directory
MaxRuns == 2

\* a name is the sequence of its characters
Characters(text) == {text[i] : i \in 1..Len(text)}
NameCharacters ==
    Characters(<<"a", "b", "c", "d", "e", "f", "g", "h", "i", "j", "k", "l",
                 "m", "n", "o", "p", "q", "r", "s", "t", "u", "v", "w", "x",
                 "y", "z", "0", "1", "2", "3", "4", "5", "6", "7", "8", "9",
                 "_", "-">>)

\* str::starts_with
starts_with(name, prefix) ==
    /\ Len(name) >= Len(prefix)
    /\ SubSeq(name, 1, Len(prefix)) = prefix

RECURSIVE split(_, _)
\* str::split: the parts of name between the occurrences of separator
split(name, separator) ==
    IF \A i \in 1..Len(name) : name[i] # separator THEN <<name>>
    ELSE LET at == CHOOSE i \in 1..Len(name) :
                       /\ name[i] = separator
                       /\ \A j \in 1..(i - 1) : name[j] # separator
         IN <<SubSeq(name, 1, at - 1)>>
              \o split(SubSeq(name, at + 1, Len(name)), separator)

\* Regex "^[a-z0-9_-]+/[a-z0-9_-]+$" matches name
is_match(name) ==
    \E at \in 1..Len(name) :
        /\ name[at] = "/"
        /\ at > 1
        /\ at < Len(name)
        /\ \A i \in 1..Len(name) : i # at => name[i] \in NameCharacters

AikenPrefix == <<"a", "i", "k", "e", "n", "_">>
AikenModule == <<"a", "i", "k", "e", "n">>

\* validate_name without the test of the form owner/repo
validate_name_without_format(name) ==
    IF starts_with(name, AikenPrefix) THEN "InvalidProjectName:AikenPrefix"
    ELSE IF name = AikenModule THEN "InvalidProjectName:AikenReservedModule"
    ELSE "Ok"

validate_name(name) ==
    IF starts_with(name, AikenPrefix) THEN "InvalidProjectName:AikenPrefix"
    ELSE IF name = AikenModule THEN "InvalidProjectName:AikenReservedModule"
    ELSE IF ~is_match(name) THEN "InvalidProjectName:Format"
    ELSE "Ok"

PackageName(owner, repo) == [owner |-> owner, repo |-> repo]
NoPackageName == PackageName(<<>>, <<>>)

\* package_name_from_str: the first two parts of name; an error when name
\* has no second part
package_name_from_str(name) ==
    LET name_split == split(name, "/")
    IN IF Len(name_split) < 2
       THEN [result |-> "InvalidProjectName:Format", name |-> NoPackageName]
       ELSE [result |-> "Ok",
             name |-> PackageName(name_split[1], name_split[2])]

\* what stands at a path of the working directory
Absent == [kind |-> "absent", text |-> "", name |-> <<>>]
Directory == [kind |-> "dir", text |-> "", name |-> <<>>]
File(text, name) == [kind |-> "file", text |-> text, name |-> name]
DanglingLink == [kind |-> "symlink", text |-> "", name |-> <<>>]

\* the paths below a root that new writes: root itself, lib, lib/<repo>,
\* validators and the three files
Below == {".", "lib", "lib/repo", "validators", "aiken.toml", "README.md",
          ".gitignore"}

\* Path::exists: a dangling symbolic link does not exist
exists(fs, root) == fs[root]["."].kind \in {"dir", "file"}

Write(below, entry) == [below |-> below, entry |-> entry]

\* the writes of create_project in the order the code makes them:
\* create_lib_folder, create_validators_folder unless --lib, aiken_toml,
\* readme, gitignore
writes(lib, package_name) ==
    <<Write(".", Directory), Write("lib", Directory),
      Write("lib/repo", Directory)>>
    \o (IF lib THEN <<>> ELSE <<Write("validators", Directory)>>)
    \o <<Write("aiken.toml",
              File("aiken.toml", package_name.owner \o <<"/">>
                                    \o package_name.repo)),
         Write("README.md", File("README.md", package_name.repo)),
         Write(".gitignore", File(".gitignore", <<>>))>>

RECURSIVE written(_, _, _)
\* the directory root after the first done of the writes were made
written(tree, steps, done) ==
    IF done = 0 THEN tree
    ELSE written([tree EXCEPT ![Head(steps).below] = Head(steps).entry],
                 Tail(steps), done - 1)

\* the writes of create_project that are made when the write number fail
\* returns an I/O error (0: none does); below a dangling link the first
\* create_dir_all fails
writes_made(fs, root, steps, fail) ==
    IF fs[root]["."].kind = "symlink" THEN 0
    ELSE IF fail = 0 THEN Len(steps)
    ELSE fail - 1

\* create_project without the test root.exists()
create_project_over_existing(fs, lib, package_name, fail) ==
    LET root == package_name.repo
        steps == writes(lib, package_name)
        done == writes_made(fs, root, steps, fail)
    IN [fs |-> [fs EXCEPT ![root] = written(fs[root], steps, done)],
        result |-> IF done = Len(steps) THEN "Ok" ELSE "Io"]

create_project(fs, lib, package_name, fail) ==
    LET root == package_name.repo
        steps == writes(lib, package_name)
        done == writes_made(fs, root, steps, fail)
    IN IF exists(fs, root)
       THEN [fs |-> fs, result |-> "ProjectExists"]
       ELSE [fs |-> [fs EXCEPT ![root] = written(fs[root], steps, done)],
             result |-> IF done = Len(steps) THEN "Ok" ELSE "Io"]

\* exec of the new command: the working directory it leaves and its result
exec(fs, name, lib, fail) ==
    IF validate_name(name) # "Ok"
    THEN [fs |-> fs, result |-> validate_name(name)]
    ELSE IF package_name_from_str(name).result # "Ok"
    THEN [fs |-> fs, result |-> package_name_from_str(name).result]
    ELSE create_project(fs, lib, package_name_from_str(name).name, fail)

\* the names given to new: o/p, q/p, o/r, aiken_/p, aiken, p, o/P, o/p/r, /p
ProjectNames ==
    {<<"o", "/", "p">>, <<"q", "/", "p">>, <<"o", "/", "r">>,
     AikenPrefix \o <<"/", "p">>, AikenModule, <<"p">>,
     <<"o", "/", "P">>, <<"o", "/", "p", "/", "r">>, <<"/", "p">>}

\* the directories a name could stand for: the second part of every name
Roots ==
    {split(name, "/")[2] : name \in {n \in ProjectNames :
                                        Len(split(n, "/")) > 1}}

\* what stands at a root before new is run: nothing, a directory or a file
\* of somebody else, or a dangling symbolic link
Before == {Absent, Directory, File("other", <<>>), DanglingLink}

NoRun == [name |-> <<>>, lib |-> FALSE, result |-> "none"]

\* the shell is opened in a working directory
OpenDirectory ==
    /\ pc = "idle"
    /\ pc' = "shell"
    /\ \E at_root \in [Roots -> Before] :
          LET fs == [root \in Roots |->
                        [below \in Below |->
                            IF below = "." THEN at_root[root] ELSE Absent]]
          IN cur' = [input |-> NoInput, id0 |-> id_gen, fs |-> fs,
                     before |-> fs, run |-> NoRun, previous |-> NoRun,
                     runs |-> 0]
    /\ UNCHANGED <<id_gen, defined_functions, zero_arg_functions,
                   needs_field_access, ir_stack, arg_stack, final_air,
                   program, calls, last_step, wrappers>>

\* aiken new [--lib] name
New ==
    /\ pc = "shell"
    /\ cur.runs < MaxRuns
    /\ \E name \in ProjectNames, lib \in BOOLEAN :
          \E fail \in 0..Len(writes(lib, NoPackageName)) :
              cur' = [cur EXCEPT
                          !.fs = exec(cur.fs, name, lib, fail).fs,
                          !.before = cur.fs,
                          !.run = [name |-> name, lib |-> lib,
                                   result |->
                                       exec(cur.fs, name, lib, fail).result],
                          !.previous = cur.run,
                          !.runs = cur.runs + 1]
    /\ UNCHANGED <<pc, id_gen, defined_functions, zero_arg_functions,
                   needs_field_access, ir_stack, arg_stack, final_air,
                   program, calls, last_step, wrappers>>

NewNext ==
    \/ OpenDirectory
    \/ New

SpecNew == Init /\ [][NewNext]_vars

has_run == pc = "shell" /\ cur.runs > 0

\* the name is one the claim calls invalid: it starts with aiken_, equals
\* aiken, or is not owner/repo over [a-z0-9_-]
invalid_name(name) ==
    \/ starts_with(name, AikenPrefix)
    \/ name = AikenModule
    \/ Len(split(name, "/")) # 2
    \/ \E i \in 1..Len(split(name, "/")) :
          \/ split(name, "/")[i] = <<>>
          \/ ~(Characters(split(name, "/")[i]) \subseteq NameCharacters)

\* a path named after the repo part of the name stood in the directory
repo_existed ==
    /\ Len(split(cur.run.name, "/")) > 1
    /\ exists(cur.before, split(cur.run.name, "/")[2])

is_error(result) == result \notin {"Ok", "none"}

\* C29: a run of new with an invalid name, or with a name whose repo part
\* already exists, returns an error and leaves the working directory as it
\* was; a run with the name of the successful run before it fails with
\* ProjectExists and leaves the directory as it was
C29_ChecksBeforeWrites ==
    has_run =>
        /\ (invalid_name(cur.run.name) \/ repo_existed)
               => (is_error(cur.run.result) /\ cur.fs = cur.before)
        /\ (cur.previous.result = "Ok" /\ cur.previous.name = cur.run.name)
               => (cur.run.result = "ProjectExists" /\ cur.fs = cur.before)

\* the second of two runs with the same name has failed with ProjectExists
C29_SecondRunRefused ==
    /\ has_run
    /\ cur.previous.result = "Ok"
    /\ cur.previous.name = cur.run.name
    /\ cur.previous.lib # cur.run.lib
    /\ cur.run.result = "ProjectExists"

\* a run with an invalid name has failed in a directory where the repo part
\* of the name was free
C29_InvalidNameRefused ==
    /\ has_run
    /\ cur.run.name = <<"o", "/", "p", "/", "r">>
    /\ cur.run.result = "InvalidProjectName:Format"
    /\ ~exists(cur.before, <<"p">>)

\* only the names the claim calls invalid are refused by validate_name
C29_InvalidNamesAreThoseRefused ==
    has_run =>
        (invalid_name(cur.run.name)
            <=> cur.run.result \in {"InvalidProjectName:AikenPrefix",
                                    "InvalidProjectName:AikenReservedModule",
                                    "InvalidProjectName:Format"})

\* a run changes the directory only below the repo part of its name, and
\* only when that path did not exist
C29_WritesOnlyBelowFreeRoot ==
    has_run =>
        \A root \in Roots :
            cur.fs[root] # cur.before[root]
                => /\ ~exists(cur.before, root)
                   /\ validate_name(cur.run.name) = "Ok"
                   /\ root = package_name_from_str(cur.run.name).name.repo

\* a run that met an I/O error has left a part of a project, which the next
\* run with the same name does not complete
C29_PartialProjectRefused ==
    /\ has_run
    /\ cur.previous.result = "Io"
    /\ cur.previous.name = cur.run.name
    /\ cur.run.result = "ProjectExists"
    /\ cur.fs[<<"p">>]["aiken.toml"] = Absent
    /\ cur.fs[<<"p">>]["lib"] = Directory

----------------------------------------------------------------------------
(* UntypedExpr::append_in_sequence *)

\* the longest Sequence that is appended
MaxSequence == 2

Span(start, end) == [start |-> start, end |-> end]

UntypedVar(name, location) ==
    [expr |-> "Var", name |-> name, location |-> location,
     expressions |-> <<>>]
UntypedSequence(location, expressions) ==
    [expr |-> "Sequence", name |-> "", location |-> location,
     expressions |-> expressions]

\* UntypedExpr::location: a Sequence answers with the location of its last
\* expression
RECURSIVE location(_)
location(e) ==
    IF e.expr = "Sequence" /\ e.expressions # <<>>
    THEN location(Last(e.expressions))
    ELSE e.location

\* append_in_sequence with a fourth arm for a Sequence followed by an
\* expression that is not one
append_in_sequence_flattening(self, next) ==
    LET span == Span(location(self).start, location(next).end)
    IN IF self.expr = "Sequence" /\ next.expr = "Sequence"
       THEN UntypedSequence(span, self.expressions \o next.expressions)
       ELSE IF next.expr = "Sequence"
       THEN UntypedSequence(span, <<self>> \o next.expressions)
       ELSE IF self.expr = "Sequence"
       THEN UntypedSequence(span, Append(self.expressions, next))
       ELSE UntypedSequence(span, <<self, next>>)

\* the three arms of the match on (self, next): (Sequence, Sequence),
\* (_, Sequence), (_, _)
append_in_sequence(self, next) ==
    LET span == Span(location(self).start, location(next).end)
    IN IF self.expr = "Sequence" /\ next.expr = "Sequence"
       THEN UntypedSequence(span, self.expressions \o next.expressions)
       ELSE IF next.expr = "Sequence"
       THEN UntypedSequence(span, <<self>> \o next.expressions)
       ELSE UntypedSequence(span, <<self, next>>)

\* the variables x, y, z at their places in the source text
SourceVars ==
    {UntypedVar("x", Span(0, 1)), UntypedVar("y", Span(2, 3)),
     UntypedVar("z", Span(4, 5))}

\* the flat Sequences of up to MaxSequence variables
SourceSequences ==
    {UntypedSequence(Span(0, 0), <<>>)}
    \cup UNION {{UntypedSequence(Span(es[1].location.start,
                                      es[n].location.end), es) :
                    es \in [1..n -> SourceVars]} : n \in 1..MaxSequence}

SourceExpressions == SourceVars \cup SourceSequences

\* the parser holds three expressions
ParseExpressions ==
    /\ pc = "idle"
    /\ pc' = "parsed"
    /\ \E a \in SourceExpressions, b \in SourceExpressions,
          c \in SourceExpressions :
          cur' = [input |-> NoInput, id0 |-> id_gen, a |-> a, b |-> b,
                  c |-> c]
    /\ UNCHANGED <<id_gen, defined_functions, zero_arg_functions,
                   needs_field_access, ir_stack, arg_stack, final_air,
                   program, calls, last_step, wrappers>>

\* the three expressions are appended, from the left and from the right
AppendInSequence ==
    /\ pc = "parsed"
    /\ pc' = "appended"
    /\ cur' = [input |-> cur.input, id0 |-> cur.id0, a |-> cur.a,
               b |-> cur.b, c |-> cur.c,
               ab |-> append_in_sequence(cur.a, cur.b),
               ab_c |-> append_in_sequence(
                            append_in_sequence(cur.a, cur.b), cur.c),
               a_bc |-> append_in_sequence(
                            cur.a, append_in_sequence(cur.b, cur.c))]
    /\ UNCHANGED <<id_gen, defined_functions, zero_arg_functions,
                   needs_field_access, ir_stack, arg_stack, final_air,
                   program, calls, last_step, wrappers>>

AppendNext ==
    \/ ParseExpressions
    \/ AppendInSequence

SpecAppend == Init /\ [][AppendNext]_vars

\* the expressions of a Sequence, or the expression itself
expressions_of(e) == IF e.expr = "Sequence" THEN e.expressions ELSE <<e>>

\* no expression of the Sequence is itself a Sequence
flat(e) ==
    /\ e.expr = "Sequence"
    /\ \A i \in 1..Len(e.expressions) : e.expressions[i].expr # "Sequence"

is_concatenation ==
    /\ flat(cur.ab)
    /\ cur.ab.expressions = expressions_of(cur.a) \o expressions_of(cur.b)

\* C30 (as stated): append_in_sequence(a, b) is a flat Sequence of the
\* expressions of a followed by those of b, whichever of a and b is a
\* Sequence, and appending is associative on the expression lists
C30_AppendFlattens ==
    pc = "appended" =>
        /\ is_concatenation
        /\ cur.ab_c.expressions = cur.a_bc.expressions

\* append_in_sequence(a, b) is the flat concatenation unless a is a
\* Sequence and b is not; then it is the Sequence of a itself and b
C30_AppendFlattensOnTheRight ==
    pc = "appended" =>
        IF cur.a.expr = "Sequence" /\ cur.b.expr # "Sequence"
        THEN cur.ab.expressions = <<cur.a, cur.b>>
        ELSE is_concatenation

\* appending is associative on the expression lists when b and c are
\* Sequences
C30_AssociativeOverSequences ==
    (pc = "appended" /\ cur.b.expr = "Sequence" /\ cur.c.expr = "Sequence")
        => cur.ab_c.expressions = cur.a_bc.expressions

\* three variables appended from the left nest, appended from the right
\* they do not
C30_LeftAppendNests ==
    /\ pc = "appended"
    /\ cur.a.expr = "Var" /\ cur.b.expr = "Var" /\ cur.c.expr = "Var"
    /\ cur.a_bc.expressions = <<cur.a, cur.b, cur.c>>
    /\ cur.ab_c.expressions = <<cur.ab, cur.c>>

\* the Sequence that is returned spans from the start of a to the end of b
C30_SpansBoth ==
    (pc = "appended" /\ cur.a.expr = "Var" /\ cur.b.expr = "Var")
        => cur.ab.location = Span(cur.a.location.start, cur.b.location.end)

====
